---- MODULE Spec2Model ----
(***************************************************************************)
(* Model of the mirror-trading pipeline of mae-kelly/stay_fly:             *)
(*   ExecutionEngine  (execution_engine.rs, src/unnamed/part_000 1-237)    *)
(*   MempoolScanner   (mempool_scanner.rs, two versions)                   *)
(*   TokenValidator   (token_validator.rs)                                 *)
(*   main             (main.rs: tasks, shutdown, emergency close)          *)
(*                                                                         *)
(* Numbers.  The code computes with f64.  The model uses fixed point:      *)
(* money is an integer number of cents (capital 1000.0 is 100000), prices  *)
(* are integer ticks.  x * 0.3 is (x * 3) \div 10, p * 0.8 is              *)
(* (p * 4) \div 5, p * 5.0 is p * 5 and a * p / e is (a * p) \div e.       *)
(* Gateway prices are drawn from positive multiples of 5, so stop_loss is  *)
(* exact.                                                                  *)
(*                                                                         *)
(* Steps.  One action per region of a handler between two points where     *)
(* another thread can run: an .await, or taking one of the three guards    *)
(* (positions: tokio RwLock; capital, metrics: parking_lot Mutex).         *)
(***************************************************************************)
EXTENDS Integers, Sequences, FiniteSets, TLC

(* ------------------------------ bounds -------------------------------- *)
\* cap on metrics.total_trades under Spec
MaxTrades == 2
\* cap on metrics.total_trades under SpecBook
MaxBook == 5

Workers == {1, 2}
\* iteration order of the positions map (a HashMap: any order; one is modelled)
TokenOrder == <<"0xa1", "0xb2", "0xc3", "0xd4", "0xe5", "0xf6">>
Tokens == {"0xa1", "0xb2"}
RequestAmounts == {0, 50000}
EntryPrices == {10}
QuotePrices == {8, 50}
SizingAmounts == {0, 20000, 50000}
SizingPrices == {10, 20}
ClockValues == {0, 86400, 86401}
\* toTokenAmount of a swap response: numbers, zero, not a number, no field
SwapAmounts == {"3000", "1000", "0", "abc", "missing"}
\* buys counted before the workers of SpecGuards stop buying
MaxGuardTrades == 1
\* prices the gateway quotes under SpecExit: at stop_loss, between, at take_profit
ExitQuotes == {8, 12, 50}
\* the workers that buy under SpecExit
ExitWorkers == {1}
\* cap on the length of TokenValidator.blacklist
MaxBlacklist == 2
\* addresses given to the validator; "0xA1" is "0xa1" in another letter case
ValidatorAddrs == {"0xa1", "0xA1", "0xb2"}
\* wallet addresses of the trade intents; "0xw4" is not in the registry
IntentWallets == {"0xw1", "0xw2", "0xw3", "0xw4"}
\* token addresses of the trade intents
PipelineTokens == {"0xa1"}
ScannerSources == {"part_000", "rust/src/mempool_scanner.rs"}
\* capacity of the channel of transactions (10000 in part_000 315) and of the
\* channel of trades (1000 in part_000 316)
tx_capacity == 2
trade_capacity == 2
\* cap on the hashes a batch collects under SpecIngest
MaxBatch == 2
\* the clock of the batch advances by TickMs and is read up to MaxSinceFlush
TickMs == 100
MaxSinceFlush == 200
\* the addresses load_alpha_wallets is given: all in lower case, or "0xw1" in
\* the mixed case of a checksummed address
RegistryLoads == {{"0xw1", "0xw2"}, {"0xW1", "0xw2"}}
\* how the gateway answers a request: code "0", the rate-limit code, another
\* code, HTTP 429, another HTTP failure, no response, a body that is not JSON
Responses == {"0", "50011", "51000", "429", "500", "transport", "body"}
\* the status the gateway reports for a transaction
Statuses == {"confirmed", "success", "failed", "reverted", "pending"}
\* seconds an order-status request takes, on top of the interval
RequestSeconds == {0, 10}

(* ------------------------- program constants -------------------------- *)
InitialCapital == 100000
DustThreshold == 1
max_positions == 5
cache_size == 1000
max_retries == 5
batch_size == 50
batch_timeout == 100
okx_retry_count == 3
max_wait_time == 300
check_interval == 10
MaxHoldSeconds == 86400

NoToken == "none"
NoIntent == [wallet_address |-> "none", token_address |-> "none"]
NoTx == [from |-> "none", to |-> "none", input |-> <<>>, path |-> <<>>]
NotDecoded == [kind |-> "idle", token_address |-> <<>>]
NoClose == [token_address |-> "none", stop_loss |-> 0, amount |-> 0, exit_value |-> 0]
Callers == {"update_positions", "emergency_close_all"}

\* the environment variables the program reads
Configuration == {"ETHEREUM_WS_URL", "ETHEREUM_RPC_URL", "OKX_API_KEY", "OKX_SECRET_KEY",
                  "OKX_PASSPHRASE", "WALLET_ADDRESS", "ETHERSCAN_API_KEY"}

VARIABLES
    positions,   \* ExecutionEngine.positions: token address -> Position
    capital,     \* ExecutionEngine.capital
    metrics,     \* ExecutionEngine.metrics
    writer,      \* operation holding the positions write guard, or "none"
    now,         \* SystemTime::now() in seconds
    ppc,         \* portfolio task: position in update_positions
    scan,        \* update_positions: entries the scan loop has still to visit
    positions_to_close,  \* update_positions: marked token addresses
    quotes,      \* update_positions: current_price and elapsed of the entries priced
    mpc,         \* main: position in main
    feed,        \* the trade channel is open: workers receive new intents
    position_list,       \* emergency_close_all: drained positions still to close
    closing,     \* per caller of close_position: its argument, after the credit
    wpc,         \* per worker: position in execute_buy
    wtok,        \* per worker: token_address argument
    wreq,        \* per worker: amount_eth argument
    wamt,        \* per worker: actual_amount
    wentry,      \* per worker: result.effective_price
    wret,        \* per worker: last value returned by execute_buy
    intent,      \* per worker: the TokenTrade it is handling, or NoIntent
    vres,        \* per worker: validation_result of perform_comprehensive_validation
    vret,        \* per worker: last value returned by validate_token
    cache,       \* TokenValidator.cache: LruCache<String, bool>, most recent first
    blacklist,   \* TokenValidator.blacklist: Vec<String>
    scanner,     \* which mempool_scanner.rs of the repository is built
    spc,         \* websocket task: position in start_websocket_scanner
    retry_count, \* start_websocket_scanner: retry_count
    delay,       \* start_websocket_scanner: seconds of the last backoff sleep
    tpc,         \* processor task: position in start_transaction_processor
    tx,          \* processor task: the transaction received last
    decoded,     \* processor task: what decode_transaction answered for tx
    checked,     \* history: tokens perform_comprehensive_validation was called for
    first,       \* history: per token, what the first returned validate_token gave
    opened,      \* history: per token, how many positions execute_buy inserted
    closed,      \* history: per token, how many positions close_position credited
    wallet_keys, \* the keys of the alpha_wallets map, as load_alpha_wallets inserted them
    batch_hashes,        \* connect_and_monitor: batch_hashes.len()
    since_flush, \* connect_and_monitor: last_batch_time.elapsed() in ms
    results,     \* process_transaction_batch: results the loop has still to visit
    sending,     \* process_transaction_batch: the transaction tx_sender.send holds
    tx_queue,    \* the channel of transactions: mpsc::channel(10000)
    trade_queue, \* the channel of trades: crossbeam bounded(1000)
    env,         \* the environment variables that are set
    opc,         \* OkxClient: position in execute_buy_order
    call,        \* OkxClient: the caller of make_authenticated_request
    attempts,    \* make_authenticated_request: attempts
    reply,       \* make_authenticated_request: how the last request sent was answered
    waited,      \* monitor_transaction: start_time.elapsed() in seconds
    order        \* what execute_buy_order returned last

vars == <<positions, capital, metrics, writer, now, ppc, scan, positions_to_close,
          quotes, mpc, feed, position_list, closing, wpc, wtok, wreq, wamt, wentry,
          wret, intent, vres, vret, cache, blacklist, scanner,
          spc, retry_count, delay, tpc, tx, decoded, checked, first, opened, closed,
          wallet_keys, batch_hashes, since_flush, results, sending, tx_queue,
          trade_queue, env, opc, call, attempts, reply, waited, order>>

workerVars == <<wpc, wtok, wreq, wamt, wentry, wret, intent>>
validatorVars == <<vres, vret, cache, blacklist, scanner>>
portfolioVars == <<ppc, scan, positions_to_close, quotes>>
scannerVars == <<spc, retry_count, delay, tpc, tx, decoded>>
historyVars == <<checked, first, opened, closed>>
ingestVars == <<wallet_keys, batch_hashes, since_flush, results, sending, tx_queue, trade_queue>>
gatewayVars == <<env, opc, call, attempts, reply, waited, order>>
mainVars == <<mpc, feed, position_list>>

engine == <<positions, capital, metrics>>

(* ---------------------------- arithmetic ------------------------------ *)
Min(a, b) == IF a <= b THEN a ELSE b

\* current_capital * self.max_position_size, max_position_size = 0.3
MaxAmount(cap) == (cap * 3) \div 10

\* faulty variant of ActualAmount: the request is not clamped
ActualAmount_unclamped(amount_eth, cap) == amount_eth

\* amount_eth.min(max_amount)
ActualAmount(amount_eth, cap) == Min(amount_eth, MaxAmount(cap))

StopLoss(entry_price) == (entry_price * 4) \div 5

TakeProfit(entry_price) == entry_price * 5

NewPosition(token, entry_price, amount, ts) ==
    [token_address |-> token,
     entry_price |-> entry_price,
     amount |-> amount,
     timestamp |-> ts,
     stop_loss |-> StopLoss(entry_price),
     take_profit |-> TakeProfit(entry_price),
     current_value |-> amount,
     unrealized_pnl |-> 0]

\* HashMap::insert: add or overwrite the entry of key k
MapInsert(m, k, v) == [x \in (DOMAIN m) \cup {k} |-> IF x = k THEN v ELSE m[x]]

\* faulty variant of MapRemove: the entry stays in the map
MapRemove_keeps(m, k) == m

\* HashMap::remove
MapRemove(m, k) == [x \in (DOMAIN m) \ {k} |-> m[x]]

EmptyMap == [x \in {} |-> 0]

\* a history count: the number recorded for key k, and the map after one more
Count(m, k) == IF k \in DOMAIN m THEN m[k] ELSE 0
Counted(m, k) == MapInsert(m, k, Count(m, k) + 1)

\* the entries of a map in iteration order
Keys(m) == SelectSeq(TokenOrder, LAMBDA t : t \in DOMAIN m)

RECURSIVE Values(_, _)
Values(m, ks) == IF ks = <<>> THEN <<>> ELSE <<m[Head(ks)]>> \o Values(m, Tail(ks))

\* position.amount * current_price / position.entry_price
ExitValue(position, current_price) ==
    (position.amount * current_price) \div position.entry_price

\* lines 138-140: the revaluation fields
Revalued(position, current_price) ==
    [position EXCEPT !.current_value = ExitValue(position, current_price),
                     !.unrealized_pnl = ExitValue(position, current_price) - position.amount]

\* faulty variant of Marks: the time rule fires at the limit itself
Marks_at_limit(token, position, current_price, time) ==
    (IF current_price <= position.stop_loss \/ current_price >= position.take_profit
        THEN <<token>> ELSE <<>>)
    \o (IF time - position.timestamp >= MaxHoldSeconds THEN <<token>> ELSE <<>>)

\* lines 142-155: what one scan iteration pushes to positions_to_close
Marks(token, position, current_price, time) ==
    (IF current_price <= position.stop_loss \/ current_price >= position.take_profit
        THEN <<token>> ELSE <<>>)
    \o (IF time - position.timestamp > MaxHoldSeconds THEN <<token>> ELSE <<>>)

\* winning_trades as f64 / total_trades as f64, in percent; -1 stands for NaN
WinRate(winning, total) == IF total = 0 THEN -1 ELSE (winning * 100) \div total

\* lines 175-180: the metrics after a close with this pnl
ClosedMetrics(m, pnl) ==
    LET winning == IF pnl > 0 THEN m.winning_trades + 1 ELSE m.winning_trades IN
    [m EXCEPT !.total_pnl = @ + pnl,
              !.winning_trades = winning,
              !.win_rate = WinRate(winning, m.total_trades)]

(* ------------------------------- Init --------------------------------- *)
\* the registry loaded at startup: win_rate in percent, avg_multiplier
alpha_wallets ==
    [a \in {"0xw1", "0xw2", "0xw3"} |->
        IF a = "0xw1" THEN [win_rate |-> 80, avg_multiplier |-> 6]
        ELSE IF a = "0xw2" THEN [win_rate |-> 80, avg_multiplier |-> 60]
        ELSE [win_rate |-> 60, avg_multiplier |-> 60]]

InitEngine ==
    /\ positions = EmptyMap
    /\ capital = InitialCapital
    /\ metrics = [total_trades |-> 0, winning_trades |-> 0, total_pnl |-> 0, win_rate |-> 0]
    /\ writer = "none"
    /\ now = 0
    /\ ppc = "sleep"
    /\ scan = <<>>
    /\ positions_to_close = <<>>
    /\ quotes = EmptyMap
    /\ feed = TRUE
    /\ position_list = <<>>
    /\ closing = [c \in Callers |-> NoClose]
    /\ wpc = [w \in Workers |-> "idle"]
    /\ wtok = [w \in Workers |-> NoToken]
    /\ wreq = [w \in Workers |-> 0]
    /\ wamt = [w \in Workers |-> 0]
    /\ wentry = [w \in Workers |-> 0]
    /\ wret = [w \in Workers |-> "none"]
    /\ intent = [w \in Workers |-> NoIntent]
    /\ vres = [w \in Workers |-> FALSE]
    /\ vret = [w \in Workers |-> "none"]
    /\ cache = <<>>
    /\ blacklist = <<>>
    /\ spc = "connect"
    /\ retry_count = 0
    /\ delay = 0
    /\ tpc = "recv"
    /\ tx = NoTx
    /\ decoded = NotDecoded
    /\ checked = {}
    /\ first = EmptyMap
    /\ opened = EmptyMap
    /\ closed = EmptyMap
    /\ batch_hashes = 0
    /\ since_flush = 0
    /\ results = 0
    /\ sending = NoTx
    /\ tx_queue = <<>>
    /\ trade_queue = <<>>
    /\ opc = "idle"
    /\ call = "none"
    /\ attempts = 0
    /\ reply = "none"
    /\ waited = 0
    /\ order = "none"

\* main.rs 17-51: every variable of the environment is set, MimicEngine::new
\* returned, the wallets are loaded in lower case, the tasks are spawned
InitStarted ==
    /\ mpc = "select"
    /\ wallet_keys = DOMAIN alpha_wallets
    /\ env = Configuration

\* the scanner source of part_000 is the one running
Init == InitEngine /\ InitStarted /\ scanner = "part_000"

\* the process has not exited
Alive == mpc \notin {"exited_ok", "exited_err"}

(* --------------------------- execute_buy ------------------------------ *)
\* The values execute_buy returns, with the place that returns them
Executed == "Ok(true)"
TooSmall == "Ok(false): too small"
TooMany == "Ok(false): too many positions"
AlreadyHave == "Ok(false): already have position"
TradeFailed == "Ok(false): trade execution failed"
Declined == {TooSmall, TooMany, AlreadyHave, TradeFailed}

\* execute_buy returns val: the locals of the call are gone
Return(w, val) ==
    /\ wret' = [wret EXCEPT ![w] = val]
    /\ wpc' = [wpc EXCEPT ![w] = "idle"]
    /\ wtok' = [wtok EXCEPT ![w] = NoToken]
    /\ wreq' = [wreq EXCEPT ![w] = 0]
    /\ wamt' = [wamt EXCEPT ![w] = 0]
    /\ wentry' = [wentry EXCEPT ![w] = 0]
    /\ intent' = [intent EXCEPT ![w] = NoIntent]

\* lines 67-69: read capital, clamp
execute_buy_sizing(w, token, amount_eth) ==
    /\ Alive
    /\ wtok' = [wtok EXCEPT ![w] = token]
    /\ wreq' = [wreq EXCEPT ![w] = amount_eth]
    /\ wamt' = [wamt EXCEPT ![w] = ActualAmount(amount_eth, capital)]
    /\ wret' = [wret EXCEPT ![w] = "none"]
    /\ wpc' = [wpc EXCEPT ![w] = "sized"]
    /\ UNCHANGED <<engine, writer, now, portfolioVars, mainVars, closing, wentry, intent,
                   validatorVars, scannerVars, historyVars, ingestVars, gatewayVars>>

\* lines 71-73: the dust check fails
execute_buy_too_small(w) ==
    /\ Alive
    /\ wpc[w] = "sized"
    /\ wamt[w] < DustThreshold
    /\ Return(w, TooSmall)
    /\ UNCHANGED <<engine, writer, now, portfolioVars, mainVars, closing, validatorVars, scannerVars, historyVars, ingestVars, gatewayVars>>

\* lines 71-78: the dust check passes; under the read guard, the map is full
execute_buy_too_many(w) ==
    /\ Alive
    /\ wpc[w] = "sized"
    /\ wamt[w] >= DustThreshold
    /\ writer = "none"
    /\ Cardinality(DOMAIN positions) >= max_positions
    /\ Return(w, TooMany)
    /\ UNCHANGED <<engine, writer, now, portfolioVars, mainVars, closing, validatorVars, scannerVars, historyVars, ingestVars, gatewayVars>>

\* lines 71-82: under the read guard, the map holds the token
execute_buy_already_have(w) ==
    /\ Alive
    /\ wpc[w] = "sized"
    /\ wamt[w] >= DustThreshold
    /\ writer = "none"
    /\ Cardinality(DOMAIN positions) < max_positions
    /\ wtok[w] \in DOMAIN positions
    /\ Return(w, AlreadyHave)
    /\ UNCHANGED <<engine, writer, now, portfolioVars, mainVars, closing, validatorVars, scannerVars, historyVars, ingestVars, gatewayVars>>

\* lines 71-92: both checks pass, the read guard drops, the order is sent
execute_buy_checked(w) ==
    /\ Alive
    /\ wpc[w] = "sized"
    /\ wamt[w] >= DustThreshold
    /\ writer = "none"
    /\ Cardinality(DOMAIN positions) < max_positions
    /\ wtok[w] \notin DOMAIN positions
    /\ wpc' = [wpc EXCEPT ![w] = "order"]
    /\ UNCHANGED <<engine, writer, now, portfolioVars, mainVars, closing,
                   wtok, wreq, wamt, wentry, wret, intent, validatorVars, scannerVars, historyVars, ingestVars, gatewayVars>>

\* lines 92-94: the gateway answers Ok(result); the call of the client, which
\* read WALLET_ADDRESS (okx_dex_api.rs 148), is over
execute_buy_order_ok(w, effective_price) ==
    /\ Alive
    /\ wpc[w] = "order"
    /\ "WALLET_ADDRESS" \in env
    /\ wentry' = [wentry EXCEPT ![w] = effective_price]
    /\ wpc' = [wpc EXCEPT ![w] = "commit"]
    /\ opc' = "idle"
    /\ UNCHANGED <<engine, writer, now, portfolioVars, mainVars, closing,
                   wtok, wreq, wamt, wret, intent, validatorVars, scannerVars, historyVars, ingestVars,
                   env, call, attempts, reply, waited, order>>

\* okx_dex_api.rs 168-172: swap_data["toTokenAmount"].as_str().unwrap_or("0")
\* .parse().unwrap_or(0.0); the field is missing, not a number, or a number
to_token_amount(text) ==
    IF text = "3000" THEN 3000
    ELSE IF text = "1000" THEN 1000
    ELSE 0

\* okx_dex_api.rs 186: amount_in / amount_out if amount_out > 0.0, else 0.0
effective_price_of(amount_in, amount_out) ==
    IF amount_out > 0 THEN amount_in \div amount_out ELSE 0

\* okx_dex_api.rs 165-188, part_000 92-94: the swap is answered with data whose
\* toTokenAmount is text; execute_buy_order returns Ok(result)
execute_buy_order_swap(w, text) ==
    execute_buy_order_ok(w, effective_price_of(wamt[w], to_token_amount(text)))

\* faulty variant of execute_buy_order_err: a failed order is charged
execute_buy_order_err_charged(w) ==
    /\ Alive
    /\ wpc[w] = "order"
    /\ capital' = capital - wamt[w]
    /\ Return(w, TradeFailed)
    /\ opc' = "idle"
    /\ UNCHANGED <<positions, metrics, writer, now, portfolioVars, mainVars, closing, validatorVars, scannerVars, historyVars, ingestVars,
                   env, call, attempts, reply, waited, order>>

\* lines 125-128: the gateway answers Err(e)
execute_buy_order_err(w) ==
    /\ Alive
    /\ wpc[w] = "order"
    /\ Return(w, TradeFailed)
    /\ opc' = "idle"
    /\ UNCHANGED <<engine, writer, now, portfolioVars, mainVars, closing, validatorVars, scannerVars, historyVars, ingestVars,
                   env, call, attempts, reply, waited, order>>

\* faulty variant of execute_buy_commit: the buy is not counted in total_trades
execute_buy_commit_uncounted(w) ==
    /\ Alive
    /\ wpc[w] = "commit"
    /\ writer = "none"
    /\ positions' = MapInsert(positions, wtok[w], NewPosition(wtok[w], wentry[w], wamt[w], now))
    /\ capital' = capital - wamt[w]
    /\ opened' = Counted(opened, wtok[w])
    /\ Return(w, Executed)
    /\ UNCHANGED <<metrics, writer, now, portfolioVars, mainVars, closing, validatorVars, scannerVars,
                   checked, first, closed, ingestVars, gatewayVars>>

\* lines 95-123: build the Position; under the write guard, with no await in
\* between: insert it, debit capital, count the trade; return Ok(true)
execute_buy_commit(w) ==
    /\ Alive
    /\ wpc[w] = "commit"
    /\ writer = "none"
    /\ positions' = MapInsert(positions, wtok[w], NewPosition(wtok[w], wentry[w], wamt[w], now))
    /\ capital' = capital - wamt[w]
    /\ metrics' = [metrics EXCEPT !.total_trades = @ + 1]
    /\ opened' = Counted(opened, wtok[w])
    /\ Return(w, Executed)
    /\ UNCHANGED <<writer, now, portfolioVars, mainVars, closing, validatorVars, scannerVars,
                   checked, first, closed, ingestVars, gatewayVars>>

\* a call of execute_buy after its first step; execute_buy_too_many is left to
\* the specifications whose book can reach the ceiling
BuySteps(w) ==
    \/ execute_buy_too_small(w)
    \/ execute_buy_already_have(w)
    \/ execute_buy_checked(w)
    \/ execute_buy_order_err(w)
    \/ execute_buy_commit(w)

ExecuteBuy ==
    \E w \in Workers :
        \/ \E t \in Tokens, a \in RequestAmounts :
              /\ wpc[w] = "idle" /\ feed /\ metrics.total_trades < MaxTrades
              /\ execute_buy_sizing(w, t, a)
        \/ \E p \in EntryPrices : execute_buy_order_ok(w, p)
        \/ BuySteps(w)

(* ------------------------- update_positions --------------------------- *)
\* main.rs 58-62, part_000 192-215: the portfolio task's tick; the summary is read
\* under the read guard, which is free only while no write guard is held
get_portfolio_summary ==
    /\ Alive
    /\ ppc = "sleep"
    /\ writer = "none"
    /\ ppc' = "summarised"
    /\ UNCHANGED <<engine, writer, now, scan, positions_to_close, quotes, mainVars,
                   closing, workerVars, validatorVars, scannerVars, historyVars,
                   ingestVars, gatewayVars>>

\* faulty variant of update_positions_begin: the pass runs without the write guard
update_positions_begin_unguarded ==
    /\ Alive
    /\ ppc = "summarised"
    /\ scan' = Keys(positions)
    /\ positions_to_close' = <<>>
    /\ quotes' = EmptyMap
    /\ ppc' = "run"
    /\ UNCHANGED <<engine, writer, now, mainVars, closing, workerVars, validatorVars,
                   scannerVars, historyVars, ingestVars, gatewayVars>>

\* main.rs 65, part_000 133-134: update_positions takes the write guard
update_positions_begin ==
    /\ Alive
    /\ ppc = "summarised"
    /\ writer = "none"
    /\ writer' = "update_positions"
    /\ scan' = Keys(positions)
    /\ positions_to_close' = <<>>
    /\ quotes' = EmptyMap
    /\ ppc' = "run"
    /\ UNCHANGED <<engine, now, mainVars, closing, workerVars, validatorVars, scannerVars, historyVars, ingestVars, gatewayVars>>

\* lines 136-156: one iteration of the scan, the price query answers Ok
update_positions_scan_ok(current_price) ==
    /\ Alive
    /\ ppc = "run"
    /\ scan # <<>>
    /\ LET t == Head(scan) IN
        /\ positions' = [positions EXCEPT ![t] = Revalued(@, current_price)]
        /\ positions_to_close' =
               positions_to_close \o Marks(t, positions[t], current_price, now)
        /\ quotes' = MapInsert(quotes, t, [current_price |-> current_price,
                                            elapsed |-> now - positions[t].timestamp])
    /\ scan' = Tail(scan)
    /\ UNCHANGED <<capital, metrics, writer, now, ppc, mainVars, closing, workerVars, validatorVars, scannerVars, historyVars, ingestVars, gatewayVars>>

\* line 137: the price query answers Err, the entry is skipped
update_positions_scan_err ==
    /\ Alive
    /\ ppc = "run"
    /\ scan # <<>>
    /\ scan' = Tail(scan)
    /\ UNCHANGED <<engine, writer, now, ppc, positions_to_close, quotes, mainVars, closing, workerVars, validatorVars, scannerVars, historyVars, ingestVars, gatewayVars>>

\* lines 159-161, 169-173: remove the next marked entry, price query Ok, credit
update_positions_close_ok(current_price) ==
    /\ Alive
    /\ ppc = "run"
    /\ scan = <<>>
    /\ positions_to_close # <<>>
    /\ Head(positions_to_close) \in DOMAIN positions
    /\ LET position == positions[Head(positions_to_close)]
           exit_value == ExitValue(position, current_price) IN
        /\ positions' = MapRemove(positions, Head(positions_to_close))
        /\ capital' = capital + exit_value
        /\ closing' = [closing EXCEPT !["update_positions"] =
                          [token_address |-> position.token_address,
                           stop_loss |-> position.stop_loss,
                           amount |-> position.amount, exit_value |-> exit_value]]
    /\ closed' = Counted(closed, Head(positions_to_close))
    /\ positions_to_close' = Tail(positions_to_close)
    /\ ppc' = "credited"
    /\ UNCHANGED <<metrics, writer, now, scan, quotes, mainVars, workerVars, validatorVars, scannerVars,
                   checked, first, opened, ingestVars, gatewayVars>>

\* lines 159-161, 169: remove the next marked entry, price query Err: `?` returns
update_positions_close_err ==
    /\ Alive
    /\ ppc = "run"
    /\ scan = <<>>
    /\ positions_to_close # <<>>
    /\ Head(positions_to_close) \in DOMAIN positions
    /\ positions' = MapRemove(positions, Head(positions_to_close))
    /\ positions_to_close' = <<>>
    /\ writer' = "none"
    /\ ppc' = "sleep"
    /\ UNCHANGED <<capital, metrics, now, scan, quotes, mainVars, closing, workerVars, validatorVars, scannerVars, historyVars, ingestVars, gatewayVars>>

\* line 160: the marked entry is no longer in the map (it was marked twice)
update_positions_close_skip ==
    /\ Alive
    /\ ppc = "run"
    /\ scan = <<>>
    /\ positions_to_close # <<>>
    /\ Head(positions_to_close) \notin DOMAIN positions
    /\ positions_to_close' = Tail(positions_to_close)
    /\ UNCHANGED <<engine, writer, now, scan, ppc, quotes, mainVars, closing, workerVars, validatorVars, scannerVars, historyVars, ingestVars, gatewayVars>>

\* lines 175-189: close_position updates the metrics and returns
update_positions_close_metrics ==
    /\ Alive
    /\ ppc = "credited"
    /\ LET c == closing["update_positions"] IN
        metrics' = ClosedMetrics(metrics, c.exit_value - c.amount)
    /\ closing' = [closing EXCEPT !["update_positions"] = NoClose]
    /\ ppc' = "run"
    /\ UNCHANGED <<positions, capital, writer, now, scan, positions_to_close, quotes,
                   mainVars, workerVars, validatorVars, scannerVars, historyVars, ingestVars, gatewayVars>>

\* faulty variant of update_positions_return: the write guard is not dropped
update_positions_return_keeps_guard ==
    /\ Alive
    /\ ppc = "run"
    /\ scan = <<>>
    /\ positions_to_close = <<>>
    /\ ppc' = "sleep"
    /\ UNCHANGED <<engine, writer, now, scan, positions_to_close, quotes, mainVars, closing,
                   workerVars, validatorVars, scannerVars, historyVars, ingestVars, gatewayVars>>

\* line 165: Ok(()), the write guard drops
update_positions_return ==
    /\ Alive
    /\ ppc = "run"
    /\ scan = <<>>
    /\ positions_to_close = <<>>
    /\ writer' = "none"
    /\ ppc' = "sleep"
    /\ UNCHANGED <<engine, now, scan, positions_to_close, quotes, mainVars, closing, workerVars, validatorVars, scannerVars, historyVars, ingestVars, gatewayVars>>

UpdatePositions ==
    \/ get_portfolio_summary
    \/ update_positions_begin
    \/ \E p \in QuotePrices : update_positions_scan_ok(p)
    \/ update_positions_scan_err
    \/ \E p \in QuotePrices : update_positions_close_ok(p)
    \/ update_positions_close_err
    \/ update_positions_close_metrics
    \/ update_positions_return

(* -------------------------------- main -------------------------------- *)
\* main.rs 83-86: select! takes the ctrl_c branch; no task is stopped
main_ctrl_c ==
    /\ mpc = "select"
    /\ mpc' = "emergency"
    /\ UNCHANGED <<engine, writer, now, feed, position_list, portfolioVars, closing, workerVars, validatorVars, scannerVars, historyVars, ingestVars, gatewayVars>>

\* main.rs 47-51, 87-89: the monitoring task ended (fatal ingestion error); its
\* trade channel closes, the workers finish the intent they hold
main_monitoring_ended ==
    /\ mpc = "select"
    /\ mpc' = "emergency"
    /\ feed' = FALSE
    /\ UNCHANGED <<engine, writer, now, position_list, portfolioVars, closing, workerVars, validatorVars, scannerVars, historyVars, ingestVars, gatewayVars>>

\* part_000 218-220: take the write guard, drain the map, drop the guard
emergency_close_all_drain ==
    /\ mpc = "emergency"
    /\ writer = "none"
    /\ position_list' = Values(positions, Keys(positions))
    /\ positions' = EmptyMap
    /\ mpc' = "closing"
    /\ UNCHANGED <<capital, metrics, writer, now, feed, portfolioVars, closing, workerVars, validatorVars, scannerVars, historyVars, ingestVars, gatewayVars>>

\* part_000 222-223, 169-173: next drained position, price query Ok, credit
emergency_close_all_close_ok(current_price) ==
    /\ mpc = "closing"
    /\ position_list # <<>>
    /\ LET position == Head(position_list)
           exit_value == ExitValue(position, current_price) IN
        /\ capital' = capital + exit_value
        /\ closing' = [closing EXCEPT !["emergency_close_all"] =
                          [token_address |-> position.token_address,
                           stop_loss |-> position.stop_loss,
                           amount |-> position.amount, exit_value |-> exit_value]]
    /\ closed' = Counted(closed, Head(position_list).token_address)
    /\ position_list' = Tail(position_list)
    /\ mpc' = "credited"
    /\ UNCHANGED <<positions, metrics, writer, now, feed, portfolioVars, workerVars, validatorVars, scannerVars,
                   checked, first, opened, ingestVars, gatewayVars>>

\* part_000 223, 169, main.rs 96: price query Err, `?` returns from
\* emergency_close_all and from main; position_list is dropped
emergency_close_all_close_err ==
    /\ mpc = "closing"
    /\ position_list # <<>>
    /\ position_list' = <<>>
    /\ mpc' = "returning_err"
    /\ UNCHANGED <<engine, writer, now, feed, portfolioVars, closing, workerVars, validatorVars, scannerVars, historyVars, ingestVars, gatewayVars>>

\* part_000 175-189: close_position updates the metrics and returns
emergency_close_all_close_metrics ==
    /\ mpc = "credited"
    /\ LET c == closing["emergency_close_all"] IN
        metrics' = ClosedMetrics(metrics, c.exit_value - c.amount)
    /\ closing' = [closing EXCEPT !["emergency_close_all"] = NoClose]
    /\ mpc' = "closing"
    /\ UNCHANGED <<positions, capital, writer, now, feed, position_list,
                   portfolioVars, workerVars, validatorVars, scannerVars, historyVars, ingestVars, gatewayVars>>

\* part_000 226-227: Ok(())
emergency_close_all_return ==
    /\ mpc = "closing"
    /\ position_list = <<>>
    /\ mpc' = "returning_ok"
    /\ UNCHANGED <<engine, writer, now, feed, position_list, portfolioVars, closing, workerVars, validatorVars, scannerVars, historyVars, ingestVars, gatewayVars>>

\* lib.rs 52, 62: the capital cell of MimicEngine, made with 1000.0 beside the
\* one ExecutionEngine::new makes (part_000 47); the field is private and no
\* statement of lib.rs writes it (it is read at lines 96 and 126)
MimicEngine_capital == 100000

\* lib.rs 95-97, main.rs 70, 98: *self.capital.lock()
get_portfolio_value == MimicEngine_capital

\* main.rs 98-115: final report, main returns, the process exits
main_exit ==
    /\ mpc \in {"returning_ok", "returning_err"}
    /\ mpc' = IF mpc = "returning_ok" THEN "exited_ok" ELSE "exited_err"
    /\ UNCHANGED <<engine, writer, now, feed, position_list, portfolioVars, closing, workerVars, validatorVars, scannerVars, historyVars, ingestVars, gatewayVars>>

Main ==
    \/ main_ctrl_c
    \/ main_monitoring_ended
    \/ emergency_close_all_drain
    \/ \E p \in QuotePrices : emergency_close_all_close_ok(p)
    \/ emergency_close_all_close_err
    \/ emergency_close_all_close_metrics
    \/ emergency_close_all_return
    \/ main_exit

(* --------------------------- TokenValidator --------------------------- *)
\* String::to_lowercase on the addresses of the model
to_lowercase(a) ==
    IF a = "0xA1" THEN "0xa1"
    ELSE IF a = "0xW1" THEN "0xw1"
    ELSE IF a = "0x7a250d5630B4cF539739dF2C5dAcb4c659F2488D"
         THEN "0x7a250d5630b4cf539739df2c5dacb4c659f2488d"
    ELSE IF a = "0x1111111254EEB25477B68fb85Ed929f73A960582"
         THEN "0x1111111254eeb25477b68fb85ed929f73a960582"
    ELSE a

\* LruCache::contains / peek
LruHas(c, k) == \E i \in 1..Len(c) : c[i].key = k

LruPeek(c, k) == c[CHOOSE i \in 1..Len(c) : c[i].key = k].value

\* the cache without the entry of k
LruWithout(c, k) == SelectSeq(c, LAMBDA e : e.key # k)

\* LruCache::get on a hit: the entry becomes the most recently used
LruTouch(c, k) == <<[key |-> k, value |-> LruPeek(c, k)]>> \o LruWithout(c, k)

\* LruCache::put: update or insert as most recently used, evicting the least
\* recently used entry of a full cache
LruPut(c, k, v) ==
    IF LruHas(c, k) THEN <<[key |-> k, value |-> v]>> \o LruWithout(c, k)
    ELSE IF Len(c) >= cache_size THEN <<[key |-> k, value |-> v]>> \o SubSeq(c, 1, Len(c) - 1)
    ELSE <<[key |-> k, value |-> v]>> \o c

\* is_blacklisted: Vec::contains
is_blacklisted(bl, token_address) == \E i \in 1..Len(bl) : bl[i] = token_address

Ok(b) == IF b THEN "Ok(true)" ELSE "Ok(false)"

\* validate_token returns val to its caller: the API caller, or the executor
\* closure holding an intent
ValidateReturn(w, val) ==
    /\ vret' = [vret EXCEPT ![w] = val]
    /\ vres' = [vres EXCEPT ![w] = FALSE]
    /\ wtok' = [wtok EXCEPT ![w] = NoToken]
    /\ wpc' = [wpc EXCEPT ![w] = IF intent[w] = NoIntent THEN "idle" ELSE "validated"]
    /\ first' = IF to_lowercase(wtok[w]) \in DOMAIN first THEN first
                ELSE MapInsert(first, to_lowercase(wtok[w]), val)
    /\ UNCHANGED <<checked, opened, closed>>

\* a caller of the validator's API calls validate_token(token_address)
call_validate_token(w, token_address) ==
    /\ wpc[w] = "idle"
    /\ wtok' = [wtok EXCEPT ![w] = token_address]
    /\ vret' = [vret EXCEPT ![w] = "none"]
    /\ wpc' = [wpc EXCEPT ![w] = "validate"]
    /\ UNCHANGED <<engine, writer, now, portfolioVars, mainVars, closing,
                   wreq, wamt, wentry, wret, intent, vres, cache, blacklist, scanner, scannerVars, historyVars, ingestVars, gatewayVars>>

\* token_validator.rs 31-35: the cache holds a verdict, it is returned
validate_token_cached(w) ==
    /\ wpc[w] = "validate"
    /\ LruHas(cache, to_lowercase(wtok[w]))
    /\ cache' = LruTouch(cache, to_lowercase(wtok[w]))
    /\ ValidateReturn(w, Ok(LruPeek(cache, to_lowercase(wtok[w]))))
    /\ UNCHANGED <<engine, writer, now, portfolioVars, mainVars, closing,
                   wreq, wamt, wentry, wret, intent, blacklist, scanner, scannerVars, ingestVars, gatewayVars>>

\* token_validator.rs 31-35: no verdict in the cache
validate_token_missed(w) ==
    /\ wpc[w] = "validate"
    /\ ~LruHas(cache, to_lowercase(wtok[w]))
    /\ wtok' = [wtok EXCEPT ![w] = to_lowercase(wtok[w])]
    /\ wpc' = [wpc EXCEPT ![w] = "lookup_missed"]
    /\ UNCHANGED <<engine, writer, now, portfolioVars, mainVars, closing,
                   wreq, wamt, wentry, wret, intent, validatorVars, scannerVars, historyVars, ingestVars, gatewayVars>>

\* token_validator.rs 37-40: blacklisted: cache false, return Ok(false)
validate_token_blacklisted(w) ==
    /\ wpc[w] = "lookup_missed"
    /\ is_blacklisted(blacklist, wtok[w])
    /\ cache' = LruPut(cache, wtok[w], FALSE)
    /\ ValidateReturn(w, Ok(FALSE))
    /\ UNCHANGED <<engine, writer, now, portfolioVars, mainVars, closing,
                   wreq, wamt, wentry, wret, intent, blacklist, scanner, scannerVars, ingestVars, gatewayVars>>

\* token_validator.rs 37, 42: not blacklisted: the six checks are sent
validate_token_not_blacklisted(w) ==
    /\ wpc[w] = "lookup_missed"
    /\ ~is_blacklisted(blacklist, wtok[w])
    /\ wpc' = [wpc EXCEPT ![w] = "checks"]
    /\ checked' = checked \cup {wtok[w]}
    /\ UNCHANGED <<engine, writer, now, portfolioVars, mainVars, closing,
                   wtok, wreq, wamt, wentry, wret, intent, validatorVars, scannerVars, first, opened, closed, ingestVars, gatewayVars>>

\* token_validator.rs 42, 48-67: the checks answer, their conjunction is result.
\* Lines 70-71, 101-102: the first check is an Err without ETHERSCAN_API_KEY,
\* the third without ETHEREUM_RPC_URL
validate_token_checks_ok(w, result) ==
    /\ wpc[w] = "checks"
    /\ "ETHERSCAN_API_KEY" \in env
    /\ result => "ETHEREUM_RPC_URL" \in env
    /\ vres' = [vres EXCEPT ![w] = result]
    /\ wpc' = [wpc EXCEPT ![w] = "store"]
    /\ UNCHANGED <<engine, writer, now, portfolioVars, mainVars, closing,
                   wtok, wreq, wamt, wentry, wret, intent, vret, cache, blacklist, scanner, scannerVars, historyVars, ingestVars, gatewayVars>>

\* token_validator.rs 42, 61: a check answers Err, `?` returns it
validate_token_checks_err(w) ==
    /\ wpc[w] = "checks"
    /\ ValidateReturn(w, "Err")
    /\ UNCHANGED <<engine, writer, now, portfolioVars, mainVars, closing,
                   wreq, wamt, wentry, wret, intent, cache, blacklist, scanner, scannerVars, ingestVars, gatewayVars>>

\* token_validator.rs 43-45: cache the verdict and return it
validate_token_store(w) ==
    /\ wpc[w] = "store"
    /\ cache' = LruPut(cache, wtok[w], vres[w])
    /\ ValidateReturn(w, Ok(vres[w]))
    /\ UNCHANGED <<engine, writer, now, portfolioVars, mainVars, closing,
                   wreq, wamt, wentry, wret, intent, blacklist, scanner, scannerVars, ingestVars, gatewayVars>>

\* token_validator.rs 188-190: push the address as given
add_to_blacklist(token_address) ==
    /\ Len(blacklist) < MaxBlacklist
    /\ blacklist' = Append(blacklist, token_address)
    /\ UNCHANGED <<engine, writer, now, portfolioVars, mainVars, closing, workerVars,
                   vres, vret, cache, scanner, scannerVars, historyVars, ingestVars, gatewayVars>>

\* token_validator.rs 192-208: push the lower-cased addresses of the list
\* (a list of one address is modelled)
load_rugdoc_blacklist(addr) ==
    /\ Len(blacklist) < MaxBlacklist
    /\ blacklist' = Append(blacklist, to_lowercase(addr))
    /\ UNCHANGED <<engine, writer, now, portfolioVars, mainVars, closing, workerVars,
                   vres, vret, cache, scanner, scannerVars, historyVars, ingestVars, gatewayVars>>

\* a call of validate_token after it is issued
ValidateSteps(w) ==
    \/ validate_token_cached(w)
    \/ validate_token_missed(w)
    \/ validate_token_blacklisted(w)
    \/ validate_token_not_blacklisted(w)
    \/ \E r \in BOOLEAN : validate_token_checks_ok(w, r)
    \/ validate_token_checks_err(w)
    \/ validate_token_store(w)

(* ------------------------ start_trade_executor ------------------------ *)
\* part_000 529-531, mempool_scanner.rs 160-161
QualityWallet(a) ==
    /\ a \in DOMAIN alpha_wallets
    /\ alpha_wallets[a].win_rate > 70
    /\ alpha_wallets[a].avg_multiplier > 5

\* part_000 534: the wallet for which validation is skipped
FastTrack(sc, a) == sc = "part_000" /\ alpha_wallets[a].avg_multiplier > 50

\* part_000 544-546: 300 * min(avg_multiplier / 10, 3); mempool_scanner.rs 163: 300
PositionSize(sc, a) ==
    IF sc = "part_000" THEN (30000 * Min(alpha_wallets[a].avg_multiplier, 30)) \div 10
    ELSE 30000

\* part_000 529-531: the wallet is unknown or below the thresholds: nothing is done
executor_take_drop(w, wallet, token) ==
    /\ Alive /\ feed
    /\ wpc[w] = "idle"
    /\ ~QualityWallet(wallet)
    /\ vret' = [vret EXCEPT ![w] = "none"]
    /\ wret' = [wret EXCEPT ![w] = "none"]
    /\ UNCHANGED <<engine, writer, now, portfolioVars, mainVars, closing,
                   wpc, wtok, wreq, wamt, wentry, intent, vres, cache, blacklist, scanner, scannerVars, historyVars, ingestVars, gatewayVars>>

\* part_000 534-536: validation_result = Ok(true) without the validator
executor_take_fast_track(w, wallet, token) ==
    /\ Alive /\ feed
    /\ wpc[w] = "idle"
    /\ QualityWallet(wallet)
    /\ FastTrack(scanner, wallet)
    /\ intent' = [intent EXCEPT ![w] = [wallet_address |-> wallet, token_address |-> token]]
    /\ vret' = [vret EXCEPT ![w] = "none"]
    /\ wret' = [wret EXCEPT ![w] = "none"]
    /\ wpc' = [wpc EXCEPT ![w] = "approved"]
    /\ UNCHANGED <<engine, writer, now, portfolioVars, mainVars, closing,
                   wtok, wreq, wamt, wentry, vres, cache, blacklist, scanner, scannerVars, historyVars, ingestVars, gatewayVars>>

\* part_000 538, mempool_scanner.rs 162: validator.validate_token is called
executor_take_validate(w, wallet, token) ==
    /\ Alive /\ feed
    /\ wpc[w] = "idle"
    /\ QualityWallet(wallet)
    /\ ~FastTrack(scanner, wallet)
    /\ intent' = [intent EXCEPT ![w] = [wallet_address |-> wallet, token_address |-> token]]
    /\ wtok' = [wtok EXCEPT ![w] = token]
    /\ vret' = [vret EXCEPT ![w] = "none"]
    /\ wret' = [wret EXCEPT ![w] = "none"]
    /\ wpc' = [wpc EXCEPT ![w] = "validate"]
    /\ UNCHANGED <<engine, writer, now, portfolioVars, mainVars, closing,
                   wreq, wamt, wentry, vres, cache, blacklist, scanner, scannerVars, historyVars, ingestVars, gatewayVars>>

\* part_000 541-555, mempool_scanner.rs 162-168: Ok(true): execute_buy is called
executor_buy(w) ==
    /\ \/ wpc[w] = "approved"
       \/ wpc[w] = "validated" /\ vret[w] = "Ok(true)"
    /\ execute_buy_sizing(w, intent[w].token_address,
                          PositionSize(scanner, intent[w].wallet_address))

\* part_000 578-583: Ok(false) or Err: the intent is dropped
executor_reject(w) ==
    /\ Alive
    /\ wpc[w] = "validated"
    /\ vret[w] # "Ok(true)"
    /\ intent' = [intent EXCEPT ![w] = NoIntent]
    /\ wpc' = [wpc EXCEPT ![w] = "idle"]
    /\ UNCHANGED <<engine, writer, now, portfolioVars, mainVars, closing,
                   wtok, wreq, wamt, wentry, wret, validatorVars, scannerVars, historyVars, ingestVars, gatewayVars>>

(* ---------------------- start_websocket_scanner ---------------------- *)
RECURSIVE Pow2(_)
Pow2(n) == IF n = 0 THEN 1 ELSE 2 * Pow2(n - 1)

\* faulty variant of BackoffDelay: the delay does not grow
BackoffDelay_fixed(count) == 2

\* part_000 360: Duration::from_secs(2_u64.pow(retry_count))
BackoffDelay(count) == Pow2(count)

\* what start_websocket_scanner does with an Err of the connection.
\* part_000 351-361: count it, give up above max_retries, else sleep;
\* mempool_scanner.rs 66, 75, 82, 94: `?` returns the error
ScannerError ==
    IF scanner = "part_000"
    THEN /\ retry_count' = retry_count + 1
         /\ IF retry_count + 1 > max_retries
            THEN spc' = "fatal" /\ delay' = delay
            ELSE spc' = "sleep" /\ delay' = BackoffDelay(retry_count + 1)
    ELSE spc' = "fatal" /\ UNCHANGED <<retry_count, delay>>

\* part_000 376-397, mempool_scanner.rs 66-79: connected and subscribed, the
\* RPC client is made of ETHEREUM_RPC_URL, the batch is empty
websocket_connect_ok ==
    /\ spc = "connect"
    /\ "ETHEREUM_WS_URL" \in env
    /\ "ETHEREUM_RPC_URL" \in env
    /\ spc' = "stream"
    /\ batch_hashes' = 0
    /\ since_flush' = 0
    /\ UNCHANGED <<engine, writer, now, portfolioVars, mainVars, closing, workerVars,
                   validatorVars, retry_count, delay, tpc, tx, decoded, historyVars,
                   wallet_keys, results, sending, tx_queue, trade_queue, gatewayVars>>

\* part_000 376-377, 388, 392-393: connect_async, the subscription or the RPC
\* client fails
websocket_connect_err ==
    /\ spc = "connect"
    /\ "ETHEREUM_WS_URL" \in env
    /\ ScannerError
    /\ UNCHANGED <<engine, writer, now, portfolioVars, mainVars, closing, workerVars,
                   validatorVars, tpc, tx, decoded, historyVars, ingestVars, gatewayVars>>

\* part_000 401, 414, 428: a message is an error, or forwarding a batch or
\* answering a ping fails: connect_and_monitor returns, its batch is gone
websocket_stream_err ==
    /\ spc = "stream"
    /\ ScannerError
    /\ batch_hashes' = 0
    /\ UNCHANGED <<engine, writer, now, portfolioVars, mainVars, closing, workerVars,
                   validatorVars, tpc, tx, decoded, historyVars,
                   wallet_keys, since_flush, results, sending, tx_queue, trade_queue,
                   gatewayVars>>

\* part_000 400, 423-426, 434, 347-350, 366: a Close frame or the end of the
\* stream: connect_and_monitor returns Ok(()), its batch is gone, the loop
\* breaks, Ok(())
websocket_stream_end ==
    /\ spc = "stream"
    /\ spc' = "done"
    /\ batch_hashes' = 0
    /\ UNCHANGED <<engine, writer, now, portfolioVars, mainVars, closing, workerVars,
                   validatorVars, retry_count, delay, tpc, tx, decoded, historyVars,
                   wallet_keys, since_flush, results, sending, tx_queue, trade_queue,
                   gatewayVars>>

\* part_000 361, 345-346: the backoff sleep is over, next attempt
websocket_backoff_over ==
    /\ spc = "sleep"
    /\ spc' = "connect"
    /\ UNCHANGED <<engine, writer, now, portfolioVars, mainVars, closing, workerVars,
                   validatorVars, retry_count, delay, tpc, tx, decoded, historyVars, ingestVars, gatewayVars>>

\* part_000 326-332, lib.rs 85-93, main.rs 47-51, 87-89: the error leaves
\* try_join!, start_monitoring returns it, the monitoring task ends
monitoring_task_fails ==
    /\ spc = "fatal"
    /\ main_monitoring_ended

WebsocketScanner ==
    \/ websocket_connect_ok
    \/ websocket_connect_err
    \/ websocket_stream_err
    \/ websocket_stream_end
    \/ websocket_backoff_over
    \/ monitoring_task_fails

(* ------------------- decode_transaction, processor -------------------- *)
HexDigits == <<"0", "1", "2", "3", "4", "5", "6", "7",
               "8", "9", "a", "b", "c", "d", "e", "f">>

\* hex::encode: two lower-case digits per byte
RECURSIVE hex_encode(_)
hex_encode(bytes) ==
    IF bytes = <<>> THEN <<>>
    ELSE <<HexDigits[(Head(bytes) \div 16) + 1], HexDigits[(Head(bytes) % 16) + 1]>>
         \o hex_encode(Tail(bytes))

\* the slice calldata[a..b] of Rust: bytes a to b - 1, counted from 0
Slice(calldata, a, b) == SubSeq(calldata, a + 1, b)

\* u32::from_be_bytes
u32_from_be_bytes(b) == ((b[1] * 256 + b[2]) * 256 + b[3]) * 256 + b[4]

\* format!("0x{}", hex::encode(token_bytes))
TokenString(token_bytes) == <<"0", "x">> \o hex_encode(token_bytes)

\* the method ids of the match in decode_transaction
BuySelectors(sc) ==
    IF sc = "part_000"
    THEN {<<"7","f","f","3","6","a","b","5">>, <<"1","8","c","b","a","f","e","5">>,
          <<"3","8","e","d","1","7","3","9">>, <<"b","6","f","9","d","e","9","5">>,
          <<"7","9","1","a","c","9","4","7">>, <<"f","b","3","b","d","b","4","1">>}
    ELSE {<<"7","f","f","3","6","a","b","5">>, <<"1","8","c","b","a","f","e","5">>,
          <<"3","8","e","d","1","7","3","9">>, <<"b","6","f","9","d","e","9","5">>}

\* the router addresses as written in MempoolScanner::new (two of them; the
\* second is registered by part_000 only)
RouterConstants(sc) ==
    IF sc = "part_000"
    THEN {"0x7a250d5630B4cF539739dF2C5dAcb4c659F2488D",
          "0x1111111254EEB25477B68fb85Ed929f73A960582"}
    ELSE {"0x7a250d5630B4cF539739dF2C5dAcb4c659F2488D"}

\* dex_routers: every constant is inserted lower-cased
dex_routers(sc) == {to_lowercase(r) : r \in RouterConstants(sc)}

\* faulty variant of IsRouter: the recipient is not looked up
IsRouter_any(sc, to_addr) == TRUE

\* self.dex_routers.contains(&to_addr)
IsRouter(sc, to_addr) == to_addr \in dex_routers(sc)

ExtractOk(token_bytes) == [kind |-> "Ok", token_address |-> TokenString(token_bytes)]
ExtractErr == [kind |-> "Err", token_address |-> <<>>]
ExtractPanic == [kind |-> "Panic", token_address |-> <<>>]

\* part_000 706-748
extract_token_part_000(calldata) ==
    IF Len(calldata) < 4 THEN ExtractErr
    ELSE LET method_id == hex_encode(Slice(calldata, 0, 4)) IN
         IF method_id \in {<<"7","f","f","3","6","a","b","5">>,
                           <<"1","8","c","b","a","f","e","5">>}
         THEN IF Len(calldata) >= 68 /\ Len(calldata) >= 160
                    /\ Len(calldata) >= (128 + 32) + 40
              THEN ExtractOk(Slice(calldata, (128 + 32) + 12, (128 + 32) + 32))
              ELSE ExtractErr
         ELSE IF method_id = <<"3","8","e","d","1","7","3","9">>
         THEN IF Len(calldata) >= 68 /\ Len(calldata) >= 200
              THEN LET path_offset == u32_from_be_bytes(Slice(calldata, 68, 72)) + 4 IN
                   IF Len(calldata) >= path_offset + 64
                   THEN ExtractOk(Slice(calldata, path_offset + 44, path_offset + 64))
                   ELSE ExtractErr
              ELSE ExtractErr
         ELSE ExtractErr

\* mempool_scanner.rs 229-253; the slice of line 244 panics when it ends
\* beyond the call-data
extract_token_rust(calldata) ==
    IF Len(calldata) < 4 THEN ExtractErr
    ELSE LET method_id == hex_encode(Slice(calldata, 0, 4)) IN
         IF method_id \in {<<"7","f","f","3","6","a","b","5">>,
                           <<"1","8","c","b","a","f","e","5">>}
         THEN IF Len(calldata) >= 68
              THEN LET path_offset == u32_from_be_bytes(Slice(calldata, 4, 8)) IN
                   IF Len(calldata) >= path_offset + 32
                   THEN IF path_offset + 52 > Len(calldata) THEN ExtractPanic
                        ELSE ExtractOk(Slice(calldata, path_offset + 32, path_offset + 52))
                   ELSE ExtractErr
              ELSE ExtractErr
         ELSE ExtractErr

extract_token_from_calldata(sc, calldata) ==
    IF sc = "part_000" THEN extract_token_part_000(calldata)
    ELSE extract_token_rust(calldata)

DecodedNone == [kind |-> "None", token_address |-> <<>>]

\* part_000 659-704, mempool_scanner.rs 187-227: Some(trade), None, Err, or a
\* panic of the extraction
decode_transaction(sc, t) ==
    IF t.to = "none" THEN DecodedNone
    ELSE IF ~IsRouter(sc, to_lowercase(t.to)) THEN DecodedNone
    ELSE IF Len(t.input) < 4 THEN DecodedNone
    ELSE IF hex_encode(Slice(t.input, 0, 4)) \notin BuySelectors(sc) THEN DecodedNone
    ELSE LET r == extract_token_from_calldata(sc, t.input) IN
         IF r.kind = "Ok" THEN [kind |-> "Some", token_address |-> r.token_address]
         ELSE IF sc = "part_000" THEN DecodedNone
         ELSE r

\* faulty variant of channel_send: a send on a full channel completes and the
\* item is lost
channel_send_lossy(queue, capacity, item) ==
    [ready |-> TRUE,
     queue |-> IF Len(queue) < capacity THEN Append(queue, item) ELSE queue]

\* a send on a bounded channel (tokio mpsc send().await, crossbeam send()):
\* it completes when the channel has room, and then the item is the last one
channel_send(queue, capacity, item) ==
    [ready |-> Len(queue) < capacity, queue |-> Append(queue, item)]

\* part_000 689-699: the trade decode_transaction builds of tx
TokenTrade(t, d) == [wallet_address |-> to_lowercase(t.from), token_address |-> d.token_address]

\* part_000 488, mempool_scanner.rs 140: tx_receiver.recv() gives a
\* transaction the websocket task forwarded (the forwarding and the receipt of
\* t taken as one step: the channel is empty before and after)
processor_recv(t) ==
    /\ tpc = "recv"
    /\ spc = "stream"
    /\ tx_queue = <<>>
    /\ tx' = t
    /\ decoded' = NotDecoded
    /\ tpc' = "decode"
    /\ UNCHANGED <<engine, writer, now, portfolioVars, mainVars, closing, workerVars,
                   validatorVars, spc, retry_count, delay, historyVars, ingestVars, gatewayVars>>

\* part_000 489-504, mempool_scanner.rs 141-142: Some(trade) is sent on
\* the trade channel; send() blocks while the channel is full
processor_forward ==
    /\ tpc = "decode"
    /\ decode_transaction(scanner, tx).kind = "Some"
    /\ channel_send(trade_queue, trade_capacity,
                    TokenTrade(tx, decode_transaction(scanner, tx))).ready
    /\ trade_queue' = channel_send(trade_queue, trade_capacity,
                                   TokenTrade(tx, decode_transaction(scanner, tx))).queue
    /\ decoded' = decode_transaction(scanner, tx)
    /\ tpc' = "recv"
    /\ UNCHANGED <<engine, writer, now, portfolioVars, mainVars, closing, workerVars,
                   validatorVars, spc, retry_count, delay, tx, historyVars,
                   wallet_keys, batch_hashes, since_flush, results, sending, tx_queue,
                   gatewayVars>>

\* part_000 489, mempool_scanner.rs 141: no intent, next transaction
processor_skip ==
    /\ tpc = "decode"
    /\ decode_transaction(scanner, tx).kind = "None"
    /\ decoded' = decode_transaction(scanner, tx)
    /\ tpc' = "recv"
    /\ UNCHANGED <<engine, writer, now, portfolioVars, mainVars, closing, workerVars,
                   validatorVars, spc, retry_count, delay, tx, historyVars, ingestVars, gatewayVars>>

\* mempool_scanner.rs 141: `?` returns the Err of decode_transaction from
\* start_transaction_processor
processor_fail ==
    /\ tpc = "decode"
    /\ decode_transaction(scanner, tx).kind = "Err"
    /\ decoded' = decode_transaction(scanner, tx)
    /\ tpc' = "failed"
    /\ UNCHANGED <<engine, writer, now, portfolioVars, mainVars, closing, workerVars,
                   validatorVars, spc, retry_count, delay, tx, historyVars, ingestVars, gatewayVars>>

\* mempool_scanner.rs 244: the processor panics in the extraction
processor_panic ==
    /\ tpc = "decode"
    /\ decode_transaction(scanner, tx).kind = "Panic"
    /\ decoded' = decode_transaction(scanner, tx)
    /\ tpc' = "panicked"
    /\ UNCHANGED <<engine, writer, now, portfolioVars, mainVars, closing, workerVars,
                   validatorVars, spc, retry_count, delay, tx, historyVars, ingestVars, gatewayVars>>

\* mempool_scanner.rs 53, 107, 140, 145: the websocket task returned Ok and
\* dropped tx_sender, recv() gives None, the processor returns Ok(()).
\* (in part_000 319-323 the sender outlives the task: recv() never ends)
processor_channel_closed ==
    /\ tpc = "recv"
    /\ scanner # "part_000"
    /\ spc = "done"
    /\ tpc' = "ended"
    /\ UNCHANGED <<engine, writer, now, portfolioVars, mainVars, closing, workerVars,
                   validatorVars, spc, retry_count, delay, tx, decoded, historyVars, ingestVars, gatewayVars>>

(* ------------------- transactions given to the decoder ---------------- *)
Zeros(n) == [i \in 1..n |-> 0]

\* a uint256 below 2^32 as a 32-byte big-endian word
Word(n) ==
    Zeros(28) \o <<(n \div 16777216) % 256, (n \div 65536) % 256, (n \div 256) % 256, n % 256>>

\* the uint256 k * 2^224: k is its most significant 4 bytes
HighWord(k) ==
    <<(k \div 16777216) % 256, (k \div 65536) % 256, (k \div 256) % 256, k % 256>> \o Zeros(28)

\* 20-byte addresses with pairwise different bytes
Address(k) == [i \in 1..20 |-> 16 * k + i]

AddressWord(a) == Zeros(12) \o a

RECURSIVE PathWords(_)
PathWords(path) ==
    IF path = <<>> THEN <<>> ELSE AddressWord(Head(path)) \o PathWords(Tail(path))

\* swap(uint amountOutMin, address[] path, address to, uint deadline)
EthSwap(selector, amount_word, path) ==
    selector \o amount_word \o Word(128) \o AddressWord(Address(9)) \o Word(1700000000)
             \o Word(Len(path)) \o PathWords(path)

\* swap(uint amountIn, uint amountOutMin, address[] path, address to, uint deadline)
TokenSwap(selector, path) ==
    selector \o Word(5000) \o Word(1000) \o Word(160) \o AddressWord(Address(9))
             \o Word(1700000000) \o Word(Len(path)) \o PathWords(path)

\* 7ff36ab5, 18cbafe5, b6f9de95, fb3bdb41
EthSelectors == {<<127, 243, 106, 181>>, <<24, 203, 175, 229>>,
                 <<182, 249, 222, 149>>, <<251, 59, 219, 65>>}

\* 38ed1739, 791ac947
TokenSelectors == {<<56, 237, 23, 57>>, <<121, 26, 201, 71>>}

\* WETH -> token, WETH -> token -> token
Paths == {<<Address(1), Address(2)>>, <<Address(1), Address(2), Address(3)>>}

\* call-data of a buy with a well-formed path
WellFormed ==
    {[input |-> EthSwap(sel, Word(1000), p), path |-> p] : sel \in EthSelectors, p \in Paths}
    \cup {[input |-> TokenSwap(sel, p), path |-> p] : sel \in TokenSelectors, p \in Paths}

\* lengths the well-formed call-data is cut to
CutLengths == {2, 4, 68, 199}

\* call-data shorter than its selector requires
Truncated ==
    {[input |-> SubSeq(c.input, 1, n), path |-> <<>>] : c \in WellFormed, n \in CutLengths}
    \cup {[input |-> SubSeq(EthSwap(<<127, 243, 106, 181>>, HighWord(40),
                                    <<Address(1), Address(2)>>), 1, 80),
           path |-> <<>>]}

\* approve(address,uint256), 095ea7b3: not a buy
NotBuy == {[input |-> <<9, 94, 167, 179>> \o AddressWord(Address(2)) \o Word(1000), path |-> <<>>]}

\* tx.to as format!("{:?}", to) prints it; "none" is a contract creation
Recipients == {"0x7a250d5630b4cf539739df2c5dacb4c659f2488d",
               "0x1111111254eeb25477b68fb85ed929f73a960582",
               "0x00000000000000000000000000000000000000aa",
               "none"}

Transactions ==
    {[from |-> "0xw1", to |-> r, input |-> c.input, path |-> c.path] :
        r \in Recipients, c \in WellFormed \cup Truncated \cup NotBuy}

(* ------------- connect_and_monitor, process_transaction_batch ---------- *)
\* the tasks of try_join! (part_000 326-332) are polled: none has returned an
\* error or panicked
PipelineRunning == tpc \notin {"failed", "panicked"} /\ spc # "fatal"

\* part_000 409, mempool_scanner.rs 89: the test made after a push
FlushDue(len, elapsed) == len >= batch_size \/ elapsed >= batch_timeout

\* part_000 651-657, mempool_scanner.rs 179-185: the sender, printed in lower
\* case, is looked up among the keys of the registry
is_alpha_wallet_transaction(keys, t) ==
    /\ t.from # "none"
    /\ to_lowercase(t.from) \in keys

\* part_000 400-409: a hash arrives, it is pushed, the batch is not due
websocket_hash_kept ==
    /\ PipelineRunning
    /\ spc = "stream"
    /\ ~FlushDue(batch_hashes + 1, since_flush)
    /\ batch_hashes' = batch_hashes + 1
    /\ UNCHANGED <<engine, writer, now, portfolioVars, mainVars, closing, workerVars,
                   validatorVars, scannerVars, historyVars,
                   wallet_keys, since_flush, results, sending, tx_queue, trade_queue,
                   gatewayVars>>

\* part_000 400-414, 446-453: a hash arrives, it is pushed, the batch is due:
\* every hash of the batch is resolved
websocket_hash_flush ==
    /\ PipelineRunning
    /\ spc = "stream"
    /\ FlushDue(batch_hashes + 1, since_flush)
    /\ batch_hashes' = batch_hashes + 1
    /\ results' = batch_hashes + 1
    /\ spc' = "flush"
    /\ UNCHANGED <<engine, writer, now, portfolioVars, mainVars, closing, workerVars,
                   validatorVars, retry_count, delay, tpc, tx, decoded, historyVars,
                   wallet_keys, since_flush, sending, tx_queue, trade_queue,
                   gatewayVars>>

\* part_000 456-457: the result visited is an Err or Ok(None)
batch_result_unresolved ==
    /\ PipelineRunning
    /\ spc = "flush"
    /\ results > 0
    /\ results' = results - 1
    /\ UNCHANGED <<engine, writer, now, portfolioVars, mainVars, closing, workerVars,
                   validatorVars, scannerVars, historyVars,
                   wallet_keys, batch_hashes, since_flush, sending, tx_queue, trade_queue,
                   gatewayVars>>

\* part_000 457-458: the result visited is Ok(Some(t)), t is not of an alpha
\* wallet
batch_result_other(t) ==
    /\ PipelineRunning
    /\ spc = "flush"
    /\ results > 0
    /\ ~is_alpha_wallet_transaction(wallet_keys, t)
    /\ results' = results - 1
    /\ UNCHANGED <<engine, writer, now, portfolioVars, mainVars, closing, workerVars,
                   validatorVars, scannerVars, historyVars,
                   wallet_keys, batch_hashes, since_flush, sending, tx_queue, trade_queue,
                   gatewayVars>>

\* part_000 457-460: the result visited is Ok(Some(t)), t is of an alpha
\* wallet: tx_sender.send(t) is called
batch_result_alpha(t) ==
    /\ PipelineRunning
    /\ spc = "flush"
    /\ results > 0
    /\ is_alpha_wallet_transaction(wallet_keys, t)
    /\ sending' = t
    /\ spc' = "send"
    /\ UNCHANGED <<engine, writer, now, portfolioVars, mainVars, closing, workerVars,
                   validatorVars, retry_count, delay, tpc, tx, decoded, historyVars,
                   wallet_keys, batch_hashes, since_flush, results, tx_queue, trade_queue,
                   gatewayVars>>

\* part_000 460: the send completes, next result
batch_send_ok ==
    /\ PipelineRunning
    /\ spc = "send"
    /\ channel_send(tx_queue, tx_capacity, sending).ready
    /\ tx_queue' = channel_send(tx_queue, tx_capacity, sending).queue
    /\ sending' = NoTx
    /\ results' = results - 1
    /\ spc' = "flush"
    /\ UNCHANGED <<engine, writer, now, portfolioVars, mainVars, closing, workerVars,
                   validatorVars, retry_count, delay, tpc, tx, decoded, historyVars,
                   wallet_keys, batch_hashes, since_flush, trade_queue, gatewayVars>>

\* part_000 456, 478, 416-417: every result is visited,
\* process_transaction_batch returns, the batch is cleared and its clock reset
batch_done ==
    /\ PipelineRunning
    /\ spc = "flush"
    /\ results = 0
    /\ batch_hashes' = 0
    /\ since_flush' = 0
    /\ spc' = "stream"
    /\ UNCHANGED <<engine, writer, now, portfolioVars, mainVars, closing, workerVars,
                   validatorVars, retry_count, delay, tpc, tx, decoded, historyVars,
                   wallet_keys, results, sending, tx_queue, trade_queue, gatewayVars>>

\* time passes for the websocket task: last_batch_time.elapsed() grows
batch_clock ==
    /\ PipelineRunning
    /\ spc \in {"stream", "flush", "send"}
    /\ since_flush < MaxSinceFlush
    /\ since_flush' = Min(since_flush + TickMs, MaxSinceFlush)
    /\ UNCHANGED <<engine, writer, now, portfolioVars, mainVars, closing, workerVars,
                   validatorVars, scannerVars, historyVars,
                   wallet_keys, batch_hashes, results, sending, tx_queue, trade_queue,
                   gatewayVars>>

\* part_000 488, mempool_scanner.rs 140: tx_receiver.recv() gives the oldest
\* transaction of the channel
processor_recv_queued ==
    /\ PipelineRunning
    /\ tpc = "recv"
    /\ tx_queue # <<>>
    /\ tx' = Head(tx_queue)
    /\ tx_queue' = Tail(tx_queue)
    /\ decoded' = NotDecoded
    /\ tpc' = "decode"
    /\ UNCHANGED <<engine, writer, now, portfolioVars, mainVars, closing, workerVars,
                   validatorVars, spc, retry_count, delay, historyVars,
                   wallet_keys, batch_hashes, since_flush, results, sending, trade_queue,
                   gatewayVars>>

\* part_000 520, mempool_scanner.rs 154: trade_receiver.iter() gives the
\* oldest trade of the channel to a closure of the executor
executor_recv ==
    /\ trade_queue # <<>>
    /\ trade_queue' = Tail(trade_queue)
    /\ UNCHANGED <<engine, writer, now, portfolioVars, mainVars, closing, workerVars,
                   validatorVars, scannerVars, historyVars,
                   wallet_keys, batch_hashes, since_flush, results, sending, tx_queue,
                   gatewayVars>>

\* the transactions the node resolves the hashes to: senders in the debug
\* format of H160 (lower case), "0xw4" is no alpha wallet; a buy, a buy cut
\* short and an approval, sent to the Uniswap V2 router
IngestSenders == {"0xw1", "0xw2", "0xw4"}

IngestCalldata ==
    {[input |-> EthSwap(<<127, 243, 106, 181>>, Word(1000), <<Address(1), Address(2)>>),
      path |-> <<Address(1), Address(2)>>],
     [input |-> <<127, 243, 106, 181>>, path |-> <<>>]}

IngestTransactions ==
    {[from |-> f, to |-> "0x7a250d5630b4cf539739df2c5dacb4c659f2488d",
      input |-> c.input, path |-> c.path] : f \in IngestSenders, c \in IngestCalldata}

(* ------------------------------ OkxClient ------------------------------ *)
\* faulty variant of AttemptsLeft: one attempt more
AttemptsLeft_one_more(n) == n < okx_retry_count + 1

\* okx_dex_api.rs 303: while attempts < self.retry_count
AttemptsLeft(n) == n < okx_retry_count

\* faulty variant of IsRateLimit: every failure is retried
IsRateLimit_every_failure(r) == r # "0"

\* okx_dex_api.rs 336, 344: code 50011 in a successful response, or HTTP 429
IsRateLimit(r) == r \in {"50011", "429"}

\* faulty variant of MonitorVerdict: a failed transaction is polled on
MonitorVerdict_failed_pending(status) ==
    IF status \in {"confirmed", "success"} THEN "Ok" ELSE "continue"

\* okx_dex_api.rs 269-280: what monitor_transaction does with a status
MonitorVerdict(status) ==
    IF status \in {"confirmed", "success"} THEN "Ok"
    ELSE IF status \in {"failed", "reverted"} THEN "Err"
    ELSE "continue"

\* execute_buy_order returns val to execute_buy
OrderReturns(val) ==
    /\ order' = val
    /\ opc' = "returned"

\* make_authenticated_request returns Err(e) to its caller.
\* okx_dex_api.rs 163: execute_buy_order returns it with `?`;
\* okx_dex_api.rs 236-245, 277-287: get_order_status answers "unknown",
\* monitor_transaction sleeps check_interval
RequestFails ==
    IF call = "swap" THEN OrderReturns("Err")
    ELSE opc' = "interval" /\ order' = order

\* part_000 92, okx_dex_api.rs 145-163, 301: execute_buy calls
\* execute_buy_order, WALLET_ADDRESS is read, the swap request begins
okx_execute_buy_order(w) ==
    /\ Alive
    /\ wpc[w] = "order"
    /\ opc = "idle"
    /\ "WALLET_ADDRESS" \in env
    /\ call' = "swap"
    /\ attempts' = 0
    /\ reply' = "none"
    /\ waited' = 0
    /\ order' = "none"
    /\ opc' = "loop"
    /\ UNCHANGED <<engine, writer, now, portfolioVars, mainVars, closing, workerVars,
                   validatorVars, scannerVars, historyVars, ingestVars, env>>

\* okx_dex_api.rs 148-149: WALLET_ADDRESS is not set
okx_no_wallet_address(w) ==
    /\ Alive
    /\ wpc[w] = "order"
    /\ opc = "idle"
    /\ "WALLET_ADDRESS" \notin env
    /\ OrderReturns("Err")
    /\ UNCHANGED <<engine, writer, now, portfolioVars, mainVars, closing, workerVars,
                   validatorVars, scannerVars, historyVars, ingestVars,
                   env, call, attempts, reply, waited>>

\* okx_dex_api.rs 303-325: an attempt: it is counted and the request is sent
request_send ==
    /\ opc = "loop"
    /\ AttemptsLeft(attempts)
    /\ attempts' = attempts + 1
    /\ opc' = "await"
    /\ UNCHANGED <<engine, writer, now, portfolioVars, mainVars, closing, workerVars,
                   validatorVars, scannerVars, historyVars, ingestVars,
                   env, call, reply, waited, order>>

\* okx_dex_api.rs 303, 354: no attempt is left: Err("Max retries exceeded")
request_exhausted ==
    /\ opc = "loop"
    /\ ~AttemptsLeft(attempts)
    /\ reply' = "Max retries exceeded"
    /\ RequestFails
    /\ UNCHANGED <<engine, writer, now, portfolioVars, mainVars, closing, workerVars,
                   validatorVars, scannerVars, historyVars, ingestVars,
                   env, call, attempts, waited>>

\* okx_dex_api.rs 336-339, 344-348: the answer is a rate limit: sleep
\* rate_limit_delay, continue
request_rate_limited(r) ==
    /\ opc = "await"
    /\ IsRateLimit(r)
    /\ reply' = r
    /\ opc' = "sleep"
    /\ UNCHANGED <<engine, writer, now, portfolioVars, mainVars, closing, workerVars,
                   validatorVars, scannerVars, historyVars, ingestVars,
                   env, call, attempts, waited, order>>

\* okx_dex_api.rs 338-339, 347-348: the sleep is over
request_sleep_over ==
    /\ opc = "sleep"
    /\ opc' = "loop"
    /\ UNCHANGED <<engine, writer, now, portfolioVars, mainVars, closing, workerVars,
                   validatorVars, scannerVars, historyVars, ingestVars,
                   env, call, attempts, reply, waited, order>>

\* okx_dex_api.rs 325, 328, 342, 350: the request or the body fails, or the
\* answer is a failure that is no rate limit: Err
request_error(r) ==
    /\ opc = "await"
    /\ r # "0"
    /\ ~IsRateLimit(r)
    /\ reply' = r
    /\ RequestFails
    /\ UNCHANGED <<engine, writer, now, portfolioVars, mainVars, closing, workerVars,
                   validatorVars, scannerVars, historyVars, ingestVars,
                   env, call, attempts, waited>>

\* okx_dex_api.rs 330-331, 165-176, 257-264: code "0" for the swap, with a
\* transaction hash (0x and 64 digits): monitor_transaction begins
swap_submitted ==
    /\ opc = "await"
    /\ call = "swap"
    /\ reply' = "0"
    /\ waited' = 0
    /\ opc' = "monitor"
    /\ UNCHANGED <<engine, writer, now, portfolioVars, mainVars, closing, workerVars,
                   validatorVars, scannerVars, historyVars, ingestVars,
                   env, call, attempts, order>>

\* okx_dex_api.rs 165-166, 174, 178: code "0" for the swap, the hash is
\* empty: Ok without monitoring
swap_without_hash ==
    /\ opc = "await"
    /\ call = "swap"
    /\ reply' = "0"
    /\ OrderReturns("Ok")
    /\ UNCHANGED <<engine, writer, now, portfolioVars, mainVars, closing, workerVars,
                   validatorVars, scannerVars, historyVars, ingestVars,
                   env, call, attempts, waited>>

\* okx_dex_api.rs 165, 191: code "0" for the swap, no data: Err
swap_without_data ==
    /\ opc = "await"
    /\ call = "swap"
    /\ reply' = "0"
    /\ OrderReturns("Err")
    /\ UNCHANGED <<engine, writer, now, portfolioVars, mainVars, closing, workerVars,
                   validatorVars, scannerVars, historyVars, ingestVars,
                   env, call, attempts, waited>>

\* okx_dex_api.rs 264-265, 224, 301: the time is not up: get_order_status
\* sends its request
monitor_poll ==
    /\ opc = "monitor"
    /\ waited < max_wait_time
    /\ call' = "status"
    /\ attempts' = 0
    /\ opc' = "loop"
    /\ UNCHANGED <<engine, writer, now, portfolioVars, mainVars, closing, workerVars,
                   validatorVars, scannerVars, historyVars, ingestVars,
                   env, reply, waited, order>>

\* okx_dex_api.rs 264, 290-291, 178: the time is up: Ok(()), the order is
\* returned as submitted
monitor_timeout ==
    /\ opc = "monitor"
    /\ waited >= max_wait_time
    /\ OrderReturns("Ok")
    /\ UNCHANGED <<engine, writer, now, portfolioVars, mainVars, closing, workerVars,
                   validatorVars, scannerVars, historyVars, ingestVars,
                   env, call, attempts, reply, waited>>

\* okx_dex_api.rs 225-254, 266-280: code "0" for the status request: the
\* status ends the monitoring or not
status_answer(status) ==
    /\ opc = "await"
    /\ call = "status"
    /\ reply' = status
    /\ IF MonitorVerdict(status) = "continue"
       THEN opc' = "interval" /\ order' = order
       ELSE OrderReturns(MonitorVerdict(status))
    /\ UNCHANGED <<engine, writer, now, portfolioVars, mainVars, closing, workerVars,
                   validatorVars, scannerVars, historyVars, ingestVars,
                   env, call, attempts, waited>>

\* okx_dex_api.rs 287, 264: sleep(check_interval) is over; elapsed() has grown
\* by the interval and by what the request took
monitor_interval_over(request_seconds) ==
    /\ opc = "interval"
    /\ waited' = Min(waited + check_interval + request_seconds, max_wait_time)
    /\ opc' = "monitor"
    /\ UNCHANGED <<engine, writer, now, portfolioVars, mainVars, closing, workerVars,
                   validatorVars, scannerVars, historyVars, ingestVars,
                   env, call, attempts, reply, order>>

\* part_000 92-94: execute_buy_order returned Ok(result) to execute_buy
execute_buy_order_returns_ok(w, effective_price) ==
    /\ opc = "returned"
    /\ order = "Ok"
    /\ execute_buy_order_ok(w, effective_price)

\* part_000 92, 125-128: execute_buy_order returned Err(e) to execute_buy
execute_buy_order_returns_err(w) ==
    /\ opc = "returned"
    /\ order = "Err"
    /\ execute_buy_order_err(w)

\* the steps of the OkxClient during one execute_buy_order
OkxClient ==
    \/ request_send
    \/ request_exhausted
    \/ \E r \in Responses : request_rate_limited(r)
    \/ request_sleep_over
    \/ \E r \in Responses : request_error(r)
    \/ swap_submitted
    \/ swap_without_hash
    \/ swap_without_data
    \/ monitor_poll
    \/ monitor_timeout
    \/ \E s \in Statuses : status_answer(s)
    \/ \E d \in RequestSeconds : monitor_interval_over(d)

(* ----------------------------- configuration ------------------------- *)
\* main.rs 17, lib.rs 59-64, okx_dex_api.rs 56-62: MimicEngine::new makes the
\* OkxClient of the three OKX variables; main goes on to load the wallets and
\* to spawn the tasks
main_startup_ok ==
    /\ mpc = "startup"
    /\ {"OKX_API_KEY", "OKX_SECRET_KEY", "OKX_PASSPHRASE"} \subseteq env
    /\ mpc' = "select"
    /\ UNCHANGED <<engine, writer, now, feed, position_list, portfolioVars, closing, workerVars,
                   validatorVars, scannerVars, historyVars, ingestVars, gatewayVars>>

\* okx_dex_api.rs 57-62, main.rs 17: one of the three is not set: main returns
\* the error
main_startup_err ==
    /\ mpc = "startup"
    /\ ~({"OKX_API_KEY", "OKX_SECRET_KEY", "OKX_PASSPHRASE"} \subseteq env)
    /\ mpc' = "exited_err"
    /\ UNCHANGED <<engine, writer, now, feed, position_list, portfolioVars, closing, workerVars,
                   validatorVars, scannerVars, historyVars, ingestVars, gatewayVars>>

\* part_000 308-309, mempool_scanner.rs 47-48: ETHEREUM_WS_URL is not set: the
\* monitoring returns the error before it connects
monitoring_no_ws_url ==
    /\ spc = "connect"
    /\ "ETHEREUM_WS_URL" \notin env
    /\ spc' = "fatal"
    /\ UNCHANGED <<engine, writer, now, portfolioVars, mainVars, closing, workerVars,
                   validatorVars, retry_count, delay, tpc, tx, decoded, historyVars,
                   ingestVars, gatewayVars>>

\* part_000 376-392, mempool_scanner.rs 66-77: connected and subscribed, then
\* ETHEREUM_RPC_URL is read and is not set: an Err of the connection
websocket_no_rpc_url ==
    /\ spc = "connect"
    /\ "ETHEREUM_WS_URL" \in env
    /\ "ETHEREUM_RPC_URL" \notin env
    /\ ScannerError
    /\ UNCHANGED <<engine, writer, now, portfolioVars, mainVars, closing, workerVars,
                   validatorVars, tpc, tx, decoded, historyVars, ingestVars, gatewayVars>>

\* the environments the process is started in: complete, or one variable short
Environments == {Configuration} \cup {Configuration \ {v} : v \in Configuration}

(* -------------------------------- clock ------------------------------- *)
Tick ==
    /\ Alive
    /\ \E v \in ClockValues : v > now /\ now' = v
    /\ UNCHANGED <<engine, writer, portfolioVars, mainVars, closing, workerVars, validatorVars, scannerVars, historyVars, ingestVars, gatewayVars>>

(* --------------------------- specifications --------------------------- *)
\* The engine as main.rs runs it: workers, the portfolio task, shutdown
Next == ExecuteBuy \/ UpdatePositions \/ Main

Spec == Init /\ [][Next]_vars

\* tokens are interchangeable for the engine: a token not yet traded is the
\* first such token of TokenOrder
BookTokens ==
    LET used == DOMAIN positions \cup {wtok[w] : w \in Workers} IN
    {t \in DOMAIN positions \cup {wtok[w] : w \in Workers} : t # NoToken}
      \cup {TokenOrder[i] : i \in {j \in 1..Len(TokenOrder) :
                                      /\ TokenOrder[j] \notin used
                                      /\ \A k \in 1..(j - 1) : TokenOrder[k] \in used}}

\* Buys that fill the book up to the ceiling
NextBook ==
    \E w \in Workers :
        \/ \E t \in BookTokens, a \in RequestAmounts :
              /\ wpc[w] = "idle" /\ metrics.total_trades < MaxBook
              /\ execute_buy_sizing(w, t, a)
        \/ \E p \in EntryPrices : execute_buy_order_ok(w, p)
        \/ execute_buy_too_many(w)
        \/ BuySteps(w)

SpecBook == Init /\ [][NextBook]_vars

\* Buys with requests below and above the 30% clamp, at two entry prices
NextSizing ==
    \E w \in Workers :
        \/ \E t \in Tokens, a \in SizingAmounts :
              /\ wpc[w] = "idle" /\ feed /\ metrics.total_trades < MaxTrades
              /\ execute_buy_sizing(w, t, a)
        \/ \E p \in SizingPrices : execute_buy_order_ok(w, p)
        \/ BuySteps(w)

SpecSizing == Init /\ [][NextSizing]_vars

\* The position store: two workers buy one token address again and again while
\* the portfolio task runs its passes and main shuts down
NextStore ==
    \/ \E w \in Workers :
          \/ \E t \in PipelineTokens :
                /\ wpc[w] = "idle" /\ feed /\ metrics.total_trades < MaxTrades
                /\ execute_buy_sizing(w, t, 50000)
          \/ \E p \in EntryPrices : execute_buy_order_ok(w, p)
          \/ execute_buy_already_have(w)
          \/ execute_buy_checked(w)
          \/ execute_buy_order_err(w)
          \/ execute_buy_commit(w)
    \/ UpdatePositions
    \/ Main

SpecStore == Init /\ [][NextStore]_vars

\* The entry price: buys whose swap the gateway answers with any toTokenAmount
NextEntry ==
    \E w \in Workers :
        \/ \E t \in Tokens :
              /\ wpc[w] = "idle" /\ metrics.total_trades < MaxTrades
              /\ execute_buy_sizing(w, t, 50000)
        \/ \E text \in SwapAmounts : execute_buy_order_swap(w, text)
        \/ execute_buy_already_have(w)
        \/ execute_buy_checked(w)
        \/ execute_buy_order_err(w)
        \/ execute_buy_commit(w)

SpecEntry == Init /\ [][NextEntry]_vars

\* The subscription of part_000: connections fail and are retried while hashes
\* arrive, are batched and resolved
NextStream ==
    \/ WebsocketScanner
    \/ batch_hashes < MaxBatch /\ websocket_hash_kept
    \/ batch_hashes < MaxBatch /\ websocket_hash_flush
    \/ batch_result_unresolved
    \/ batch_done
    \/ batch_clock

SpecStream == Init /\ [][NextStream]_vars

\* The steps of an execute_buy call of worker w once it is sized
StoreBuySteps(w) ==
    \/ \E p \in EntryPrices : execute_buy_order_ok(w, p)
    \/ execute_buy_already_have(w)
    \/ execute_buy_checked(w)
    \/ execute_buy_order_err(w)
    \/ execute_buy_commit(w)

\* The steps of emergency_close_all and of main after it
ShutdownSteps ==
    \/ emergency_close_all_drain
    \/ \E p \in QuotePrices : emergency_close_all_close_ok(p)
    \/ emergency_close_all_close_err
    \/ emergency_close_all_close_metrics
    \/ emergency_close_all_return
    \/ main_exit

\* The contention for the guards: the calls of SpecStore, with fewer buys
NextGuards ==
    \/ \E w \in Workers :
          \/ \E t \in PipelineTokens :
                /\ wpc[w] = "idle" /\ feed /\ metrics.total_trades < MaxGuardTrades
                /\ execute_buy_sizing(w, t, 50000)
          \/ StoreBuySteps(w)
    \/ UpdatePositions
    \/ Main

SpecGuards == Init /\ [][NextGuards]_vars

\* The position store under the scheduling of the code. The guard of the
\* store is a tokio RwLock, which serves its waiters in the order they came:
\* a call that waits for the guard gets it once it was free often enough
\* (strong fairness). Every external call returns and the timer of the
\* portfolio task keeps ticking (weak fairness). The guards of capital and of
\* the metrics are parking_lot mutexes taken one at a time inside code that
\* does not await, which the steps above run as a whole. Nothing forces
\* ctrl-c or the end of the monitoring task.
SpecGuardsFair ==
    /\ SpecGuards
    /\ \A w \in Workers : SF_vars(StoreBuySteps(w))
    /\ WF_vars(UpdatePositions)
    /\ SF_vars(ShutdownSteps)

\* The exit rules: positions are bought, the clock advances, the portfolio task
\* runs update_positions
NextExit ==
    \/ \E w \in ExitWorkers :
          \/ \E t \in Tokens :
                /\ wpc[w] = "idle" /\ metrics.total_trades < MaxTrades
                /\ execute_buy_sizing(w, t, 50000)
          \/ \E p \in EntryPrices : execute_buy_order_ok(w, p)
          \/ execute_buy_already_have(w)
          \/ execute_buy_checked(w)
          \/ execute_buy_commit(w)
    \/ Tick
    \/ get_portfolio_summary
    \/ update_positions_begin
    \/ \E p \in ExitQuotes : update_positions_scan_ok(p)
    \/ update_positions_scan_err
    \/ \E p \in ExitQuotes : update_positions_close_ok(p)
    \/ update_positions_close_err
    \/ update_positions_close_skip
    \/ update_positions_close_metrics
    \/ update_positions_return

SpecExit == Init /\ [][NextExit]_vars

\* The validator's API: validate_token, add_to_blacklist, load_rugdoc_blacklist
NextValidator ==
    \/ \E w \in Workers :
          \/ \E a \in ValidatorAddrs : call_validate_token(w, a)
          \/ ValidateSteps(w)
    \/ \E a \in ValidatorAddrs : add_to_blacklist(a)
    \/ \E a \in ValidatorAddrs : load_rugdoc_blacklist(a)

SpecValidator == Init /\ [][NextValidator]_vars

\* The executor closure of either scanner source: validate, then buy
InitPipeline == InitEngine /\ InitStarted /\ scanner \in ScannerSources

NextPipeline ==
    \/ \E w \in Workers :
          \/ \E a \in IntentWallets, t \in PipelineTokens :
                metrics.total_trades < MaxTrades /\ executor_take_drop(w, a, t)
          \/ \E a \in IntentWallets, t \in PipelineTokens :
                metrics.total_trades < MaxTrades /\ executor_take_fast_track(w, a, t)
          \/ \E a \in IntentWallets, t \in PipelineTokens :
                metrics.total_trades < MaxTrades /\ executor_take_validate(w, a, t)
          \/ ValidateSteps(w)
          \/ executor_buy(w)
          \/ executor_reject(w)
          \/ \E p \in EntryPrices : execute_buy_order_ok(w, p)
          \/ execute_buy_already_have(w)
          \/ execute_buy_checked(w)
          \/ execute_buy_order_err(w)
          \/ execute_buy_commit(w)
    \/ \E a \in PipelineTokens : load_rugdoc_blacklist(a)

SpecPipeline == InitPipeline /\ [][NextPipeline]_vars

\* One worker buys, the OkxClient sends the swap and polls its status
NextGateway ==
    \/ \E w \in ExitWorkers :
          \/ \E t \in Tokens :
                /\ wpc[w] = "idle" /\ metrics.total_trades < MaxTrades
                /\ execute_buy_sizing(w, t, 50000)
          \/ execute_buy_already_have(w)
          \/ execute_buy_checked(w)
          \/ okx_execute_buy_order(w)
          \/ \E p \in EntryPrices : execute_buy_order_returns_ok(w, p)
          \/ execute_buy_order_returns_err(w)
          \/ execute_buy_commit(w)
    \/ OkxClient

SpecGateway == Init /\ [][NextGateway]_vars

\* reqwest answers or times out after 10 s (okx_dex_api.rs 65), a sleep ends:
\* the client's next step is taken
SpecGatewayFair == SpecGateway /\ WF_vars(OkxClient)

\* The process from its start, in each environment: startup, then the
\* websocket task, the batches and one worker that buys
InitConfig ==
    /\ InitEngine
    /\ mpc = "startup"
    /\ scanner \in ScannerSources
    /\ wallet_keys = DOMAIN alpha_wallets
    /\ env \in Environments

NextConfig ==
    \/ main_startup_ok
    \/ main_startup_err
    \/ /\ mpc = "select"
       /\ \/ websocket_connect_ok
          \/ websocket_connect_err
          \/ websocket_backoff_over
          \/ monitoring_no_ws_url
          \/ websocket_no_rpc_url
          \/ monitoring_task_fails
          \/ batch_hashes < MaxBatch /\ websocket_hash_kept
          \/ \E w \in ExitWorkers :
                \/ \E t \in Tokens :
                      /\ wpc[w] = "idle" /\ feed /\ metrics.total_trades < MaxTrades
                      /\ execute_buy_sizing(w, t, 50000)
                \/ execute_buy_already_have(w)
                \/ execute_buy_checked(w)
                \/ \E p \in EntryPrices : execute_buy_order_ok(w, p)
                \/ execute_buy_order_err(w)
                \/ okx_no_wallet_address(w)
                \/ execute_buy_order_returns_err(w)
                \/ execute_buy_commit(w)

SpecConfig == InitConfig /\ [][NextConfig]_vars

\* The scanner of either source: the websocket task and the processor task
NextScanner ==
    \/ WebsocketScanner
    \/ \E t \in Transactions : processor_recv(t)
    \/ processor_forward
    \/ processor_skip
    \/ processor_fail
    \/ processor_panic
    \/ processor_channel_closed
    \/ executor_recv

SpecScanner == InitPipeline /\ [][NextScanner]_vars

\* Ingestion of either source with either registry: batches, the two channels,
\* the processor
InitIngest ==
    /\ InitEngine
    /\ mpc = "select"
    /\ env = Configuration
    /\ scanner \in ScannerSources
    /\ wallet_keys \in RegistryLoads

NextIngest ==
    \/ websocket_connect_ok
    \/ batch_hashes < MaxBatch /\ websocket_hash_kept
    \/ batch_hashes < MaxBatch /\ websocket_hash_flush
    \/ batch_result_unresolved
    \/ \E t \in IngestTransactions : batch_result_other(t)
    \/ \E t \in IngestTransactions : batch_result_alpha(t)
    \/ batch_send_ok
    \/ batch_done
    \/ batch_clock
    \/ processor_recv_queued
    \/ processor_forward
    \/ processor_skip
    \/ processor_fail
    \/ executor_recv

SpecIngest == InitIngest /\ [][NextIngest]_vars

\* Batches of part_000 up to the size threshold: what a hash resolves to is
\* one transaction of an alpha wallet, one of another sender, or nothing
BatchTransactions ==
    {t \in IngestTransactions : t.from \in {"0xw1", "0xw4"} /\ t.path # <<>>}

NextBatch ==
    \/ websocket_connect_ok
    \/ websocket_hash_kept
    \/ websocket_hash_flush
    \/ batch_result_unresolved
    \/ \E t \in BatchTransactions : batch_result_other(t)
    \/ \E t \in BatchTransactions : batch_result_alpha(t)
    \/ batch_send_ok
    \/ batch_done
    \/ batch_clock
    \/ processor_recv_queued
    \/ processor_forward
    \/ executor_recv

SpecBatch == Init /\ [][NextBatch]_vars

(* ------------------------------ claims -------------------------------- *)
\* worker w returns from execute_buy in this step
Returns(w) == wpc[w] \in {"sized", "order", "commit"} /\ wpc'[w] = "idle"

RECURSIVE SumAmounts(_, _)
SumAmounts(m, ks) == IF ks = <<>> THEN 0 ELSE m[Head(ks)].amount + SumAmounts(m, Tail(ks))

Exited == mpc \in {"exited_ok", "exited_err"}

\* C1: of the execute_buy calls on one token address exactly one returns
\* "executed": a call returns "executed" only when the store holds no position
\* for its token, every other call finds the position and declines.
C1_OneBuyPerToken ==
    [][\A w \in Workers :
          (Returns(w) /\ wret'[w] = Executed) => wtok[w] \notin DOMAIN positions]_vars

\* C2: the number of open positions never exceeds max_positions.
C2_PositionCeiling == Cardinality(DOMAIN positions) <= max_positions

\* C3: every committed buy debits at most 30% of the capital held at the
\* moment of the debit, and at least the dust threshold.
C3_DebitWithinFraction ==
    [][\A w \in Workers :
          (Returns(w) /\ wret'[w] = Executed) =>
              /\ (capital - capital') * 10 <= capital * 3
              /\ capital - capital' >= DustThreshold]_vars

\* C4: a call of validate_token on a token that is blacklisted when the call
\* looks it up returns Ok(false), whether or not a verdict is cached, and
\* never goes on to the external checks.
C4_BlacklistedIsRejected ==
    [][\A w \in Workers :
          /\ (/\ wpc[w] = "validate"
              /\ wpc'[w] \in {"idle", "validated"}
              /\ is_blacklisted(blacklist, to_lowercase(wtok[w])))
                 => vret'[w] = "Ok(false)"
          /\ (wpc[w] # "checks" /\ wpc'[w] = "checks")
                 => ~is_blacklisted(blacklist, wtok[w])]_vars

\* C5: the executor calls execute_buy for the token of an intent only after
\* validate_token returned Ok(true) for that token in handling that intent.
C5_ValidatedBeforeBuy ==
    [][\A w \in Workers :
          (wpc[w] # "sized" /\ wpc'[w] = "sized") => vret[w] = "Ok(true)"]_vars

\* the step is one of update_positions
PortfolioStep == <<ppc, scan, positions_to_close>>' # <<ppc, scan, positions_to_close>>

\* the scan priced t at or below the stop_loss of the position
StopLossSeen(t) ==
    t \in DOMAIN quotes /\ t \in DOMAIN positions
       /\ quotes[t].current_price <= positions[t].stop_loss

\* an exit rule applies to the position at the price and age the scan saw
ExitDue(position, q) ==
    \/ q.current_price <= position.stop_loss
    \/ q.current_price >= position.take_profit
    \/ q.elapsed > 86400

\* C11: a position the scan of update_positions priced at or below its
\* stop_loss is closed by the pass: it is removed with capital credited by its
\* exit value, the close leaves winning_trades unchanged, and it is no longer
\* open when the pass returns.
C11_StopLossCloses ==
    [][/\ \A t \in DOMAIN positions :
             (PortfolioStep /\ StopLossSeen(t) /\ t \notin DOMAIN positions') =>
                 \E p \in ExitQuotes : capital' = capital + ExitValue(positions[t], p)
       /\ (/\ ppc = "credited" /\ ppc' = "run"
           /\ closing["update_positions"].token_address \in DOMAIN quotes
           /\ quotes[closing["update_positions"].token_address].current_price
                  <= closing["update_positions"].stop_loss)
              => metrics'.winning_trades = metrics.winning_trades
       /\ (ppc = "run" /\ ppc' = "sleep") =>
              \A t \in DOMAIN positions' : ~StopLossSeen(t)]_vars

\* C12: when a pass of update_positions returns, no position it priced is
\* still open with its price at or below stop_loss, at or above take_profit,
\* or its age above 86400 s.
C12_ExitRulesClose ==
    [][(ppc = "run" /\ ppc' = "sleep") =>
          \A t \in DOMAIN positions' :
              t \in DOMAIN quotes => ~ExitDue(positions'[t], quotes[t])]_vars

\* C13: a step of an update_positions pass in which no priced position meets
\* an exit rule leaves capital, the set of open positions and the metrics
\* unchanged, and changes no field of a position but current_value and
\* unrealized_pnl.
C13_QuietPassFrame ==
    [][(/\ PortfolioStep
        /\ \A t \in DOMAIN quotes' :
              t \in DOMAIN positions /\ ~ExitDue(positions[t], quotes'[t]))
          => /\ capital' = capital
             /\ metrics' = metrics
             /\ DOMAIN positions' = DOMAIN positions
             /\ \A t \in DOMAIN positions :
                   [positions'[t] EXCEPT !.current_value = 0, !.unrealized_pnl = 0]
                     = [positions[t] EXCEPT !.current_value = 0, !.unrealized_pnl = 0]]_vars

\* C13 witness: a pass has returned after pricing a position at 12, inside
\* its exit band and within the hold time; the position is revalued and open
C13_Witness ==
    /\ ppc = "sleep" /\ writer = "none"
    /\ "0xa1" \in DOMAIN quotes /\ "0xa1" \in DOMAIN positions
    /\ \A t \in DOMAIN quotes : t \in DOMAIN positions /\ ~ExitDue(positions[t], quotes[t])
    /\ quotes["0xa1"].current_price = 12
    /\ quotes["0xa1"].elapsed = 86400
    /\ positions["0xa1"].current_value = 36000
    /\ positions["0xa1"].unrealized_pnl = 6000
    /\ capital = 70000

\* worker w returns from validate_token in this step
ValidateReturns(w) ==
    /\ wpc[w] \in {"validate", "lookup_missed", "checks", "store"}
    /\ wpc'[w] \in {"idle", "validated"}

\* C14: with no eviction, the full validation of a token runs at most once,
\* and every call of validate_token on the token returns what the first
\* returned call returned.
C14_ValidatedOnce ==
    [][\A w \in Workers :
          /\ (wpc[w] = "lookup_missed" /\ wpc'[w] = "checks") => wtok[w] \notin checked
          /\ (ValidateReturns(w) /\ to_lowercase(wtok[w]) \in DOMAIN first)
                 => vret'[w] = first[to_lowercase(wtok[w])]]_vars

\* C15: when validate_token returns after running the full validation, the
\* cache holds a verdict for the token, whatever the outcome of the checks,
\* and the cache never holds more than cache_size entries.
C15_VerdictAlwaysCached ==
    [][/\ \A w \in Workers :
             (ValidateReturns(w) /\ wpc[w] \in {"checks", "store"})
                 => LruHas(cache', wtok[w])
       /\ Len(cache') <= cache_size]_vars

\* C16: in start_websocket_scanner of part_000 every backoff sleep follows one
\* more counted failure, there are at most max_retries of them, the first
\* lasts 2 s and each next one twice the one before; the task fails only
\* on the failure after the last retry, and once failed it never retries.
C16_BoundedBackoff ==
    [][scanner = "part_000" =>
          /\ (spc # "sleep" /\ spc' = "sleep") =>
                /\ retry_count' = retry_count + 1
                /\ retry_count' <= 5
                /\ delay' = IF retry_count' = 1 THEN 2 ELSE 2 * delay
          /\ (spc # "fatal" /\ spc' = "fatal") =>
                retry_count = 5 /\ retry_count' = 6 /\ delay = 32
          /\ spc = "fatal" => (spc' = "fatal" /\ retry_count' = retry_count)]_vars

\* C16 witness: the sixth failure after five retries ended the task, and
\* the monitoring task with it
C16_Witness ==
    /\ scanner = "part_000"
    /\ spc = "fatal" /\ retry_count = 6 /\ delay = 32
    /\ mpc = "emergency" /\ ~feed

\* C17: when the stream of pending transactions ends, the websocket task
\* goes on to a backoff sleep and a new connection (or fails for good once
\* the retries are used up); it never stops while the pipeline runs on.
C17_StreamEndReconnects ==
    [][(spc = "stream" /\ spc' # "stream") => spc' \in {"sleep", "connect", "fatal"}]_vars

\* the recipient is one of the routers, letter case ignored
KnownRouter(sc, to) == \E r \in RouterConstants(sc) : to_lowercase(r) = to_lowercase(to)

\* the call-data starts with a selector of the buy table
IsBuyCalldata(sc, input) ==
    Len(input) >= 4 /\ hex_encode(SubSeq(input, 1, 4)) \in BuySelectors(sc)

\* C18: a transaction whose call-data is malformed or unsupported yields no
\* intent and the processor goes on to the next transaction; it never ends
\* the processor task.
C18_MalformedIsSkipped ==
    [][(tpc = "decode" /\ tpc' # "decode" /\ tx.path = <<>>) =>
          (tpc' = "recv" /\ decoded'.kind = "None")]_vars

\* C19: for call-data sent to a router that starts with a buy selector,
\* a well-formed path decodes to an intent for the last entry of the path,
\* and call-data cut short decodes to no intent without a crash.
C19_DecodesLastPathEntry ==
    (decoded.kind # "idle" /\ KnownRouter(scanner, tx.to) /\ IsBuyCalldata(scanner, tx.input)) =>
        IF tx.path # <<>>
        THEN decoded = [kind |-> "Some", token_address |-> TokenString(tx.path[Len(tx.path)])]
        ELSE decoded.kind \in {"None", "Err"}

\* C20: decoding yields no intent, and no error, for a transaction whose
\* recipient is no known router, whose call-data is shorter than 4 bytes, or
\* whose selector is not in the buy table.
C20_RejectsWithoutError ==
    (/\ decoded.kind # "idle"
     /\ \/ ~KnownRouter(scanner, tx.to)
        \/ Len(tx.input) < 4
        \/ ~IsBuyCalldata(scanner, tx.input))
        => (decoded.kind = "None" /\ tpc \in {"recv", "ended"})

\* C20 witness: call-data of length 2 sent to a router was decoded to no
\* intent and the processor waits for the next transaction
C20_Witness ==
    /\ tx.to = "0x7a250d5630b4cf539739df2c5dacb4c659f2488d"
    /\ Len(tx.input) = 2
    /\ decoded.kind = "None"
    /\ tpc = "recv"
    /\ scanner # "part_000"

\* the two addresses are equal when letter case is ignored
SameAddress(a, b) == to_lowercase(a) = to_lowercase(b)

\* C21: when the batch loop visits a resolved transaction, forwarding it to the
\* decoder stage is possible if and only if its sender equals, ignoring letter
\* case, an address loaded into the registry
C21_ForwardsAlphaSenders ==
    (PipelineRunning /\ spc = "flush" /\ results > 0) =>
        \A t \in IngestTransactions :
            (ENABLED batch_result_alpha(t))
                <=> (\E k \in wallet_keys : SameAddress(k, t.from))

\* C22: the two channels lose nothing and duplicate nothing.  A channel changes
\* only by a send that appends the item the sender holds, which happens only
\* when the channel has room, or by a receipt that removes its oldest item and
\* hands it to the receiver; a sender gives up its item only to the channel
C22_ChannelsLoseNothing ==
    [][/\ Len(tx_queue') <= tx_capacity /\ Len(trade_queue') <= trade_capacity
       /\ tx_queue' # tx_queue =>
             \/ /\ spc = "send" /\ Len(tx_queue) < tx_capacity
                /\ tx_queue' = Append(tx_queue, sending)
             \/ /\ tpc = "recv" /\ tx_queue # <<>>
                /\ tx_queue' = Tail(tx_queue) /\ tx' = Head(tx_queue)
       /\ (spc = "send" /\ spc' # "send") =>
             (Len(tx_queue) < tx_capacity /\ tx_queue' = Append(tx_queue, sending))
       /\ trade_queue' # trade_queue =>
             \/ /\ tpc = "decode" /\ Len(trade_queue) < trade_capacity
                /\ trade_queue' = Append(trade_queue, TokenTrade(tx, decoded'))
             \/ trade_queue # <<>> /\ trade_queue' = Tail(trade_queue)
       /\ (tpc = "decode" /\ tpc' # "decode" /\ decoded'.kind = "Some") =>
             /\ Len(trade_queue) < trade_capacity
             /\ trade_queue' = Append(trade_queue, TokenTrade(tx, decoded'))]_vars

\* both senders wait on a full channel
C22_Witness ==
    /\ spc = "send" /\ Len(tx_queue) = tx_capacity
    /\ tpc = "decode" /\ Len(trade_queue) = trade_capacity
    /\ decode_transaction(scanner, tx).kind = "Some"

\* C23: a pending batch holds fewer than 50 hashes, and a batch that is not
\* empty is not older than the time threshold
C23_BatchFlushedInTime ==
    spc = "stream" =>
        /\ batch_hashes < batch_size
        /\ batch_hashes > 0 => since_flush <= batch_timeout

\* C24: a call sends at most 3 requests.  An answer that is a rate limit is
\* followed by the sleep and the sleep by the loop test; when 3 requests were
\* sent the loop test fails the call with "Max retries exceeded" instead of
\* sending a 4th
C24_RateLimitRetriesBounded ==
    [][/\ attempts' <= 3
       /\ (opc = "loop" /\ opc' = "await") => (attempts < 3 /\ attempts' = attempts + 1)
       /\ (opc = "await" /\ opc' # "await" /\ reply' \in {"50011", "429"}) =>
             (opc' = "sleep" /\ attempts' = attempts)
       /\ (opc = "sleep" /\ opc' # "sleep") => (opc' = "loop" /\ attempts' = attempts)
       /\ (opc = "loop" /\ opc' # "loop" /\ attempts = 3) =>
             /\ reply' = "Max retries exceeded"
             /\ call = "swap" => (opc' = "returned" /\ order' = "Err")
             /\ call = "status" => opc' = "interval"]_vars

\* three rate limits in a row have failed the swap request
C24_Witness ==
    /\ call = "swap" /\ attempts = 3 /\ reply = "Max retries exceeded"
    /\ opc = "returned" /\ order = "Err"

\* C25: an answer with another code than "0" and the rate-limit code, or with
\* an HTTP failure other than 429, ends the call with an error at once: no
\* sleep, no further attempt
C25_OtherFailuresReturnAtOnce ==
    [][(opc = "await" /\ opc' # "await" /\ reply' \in {"51000", "500"}) =>
          /\ attempts' = attempts
          /\ call = "swap" => (opc' = "returned" /\ order' = "Err")
          /\ call = "status" => opc' = "interval"]_vars

\* the first answer to the swap request was another code
C25_Witness ==
    /\ call = "swap" /\ attempts = 1 /\ reply = "51000"
    /\ opc = "returned" /\ order = "Err"

\* C26: monitoring ends with Ok on confirmed or success, with Err on failed or
\* reverted, with Ok when the time is up and in no other way; after an Err
\* execute_buy returns "trade execution failed" and the positions are as
\* before; and monitoring that has begun ends
C26_MonitoringTerminates ==
    /\ [][/\ (opc = "await" /\ call = "status" /\ opc' # "await"
                 /\ reply' \in {"confirmed", "success"}) =>
                (opc' = "returned" /\ order' = "Ok")
          /\ (opc = "await" /\ call = "status" /\ opc' # "await"
                 /\ reply' \in {"failed", "reverted"}) =>
                (opc' = "returned" /\ order' = "Err")
          /\ (opc = "await" /\ call = "status" /\ opc' = "returned") =>
                reply' \in {"confirmed", "success", "failed", "reverted"}
          /\ (opc = "monitor" /\ opc' = "returned") =>
                (waited >= 300 /\ order' = "Ok")
          /\ (opc = "returned" /\ order = "Err" /\ opc' # "returned") =>
                /\ positions' = positions
                /\ \E w \in ExitWorkers : wpc[w] = "order" /\ wret'[w] = TradeFailed]_vars
    /\ (opc = "monitor") ~> (opc = "returned")

\* a transaction that was submitted is reported failed, execute_buy has
\* returned and no position is stored
C26_Witness ==
    /\ call = "status" /\ reply \in {"failed", "reverted"} /\ order = "Err"
    /\ opc = "idle"
    /\ \E w \in ExitWorkers : wret[w] = TradeFailed
    /\ positions = EmptyMap

\* C27: while a variable of the configuration is not set the process does not
\* get past its startup: no connection is made or retried, no validation and no
\* execute_buy is under way
C27_FailsFastAtStartup ==
    env # Configuration =>
        /\ mpc \in {"startup", "exited_err"}
        /\ spc = "connect" /\ retry_count = 0
        /\ \A w \in Workers : wpc[w] = "idle"

\* update_positions is between taking its write guard and returning
InPass == ppc \in {"run", "credited"}

\* C28: while an update_positions pass runs, from the start of its scan until
\* its last marked position is closed, it holds the write guard of the position
\* store; no execute_buy reads the map for its checks (the dust return before
\* them reads nothing) or makes its insert, emergency_close_all
\* does not drain, no summary read happens, and every change of the map is a step
\* of the pass itself
C28_PassExcludesBuyAndClose ==
    [][InPass =>
          /\ writer = "update_positions"
          /\ \A w \in Workers :
                /\ (wpc[w] = "sized" /\ wamt[w] >= DustThreshold) => wpc'[w] = "sized"
                /\ wpc[w] = "commit" => wpc'[w] = "commit"
          /\ ~(mpc = "emergency" /\ mpc' = "closing")
          /\ ppc' # "summarised"
          /\ positions' # positions =>
                \/ scan' # scan
                \/ positions_to_close' # positions_to_close]_vars

\* C28 witness: the pass has removed and credited a marked position while a buy
\* waits with its order placed for the write guard and shutdown has been requested
C28_Witness ==
    /\ ppc = "credited"
    /\ writer = "update_positions"
    /\ closing["update_positions"] # NoClose
    /\ \E w \in Workers : wpc[w] = "commit"
    /\ mpc = "emergency"

\* the positions of token t that are open: in the store, or drained from it by
\* emergency_close_all and waiting in its list to be closed
Held(t) ==
    (IF t \in DOMAIN positions THEN 1 ELSE 0)
    + Cardinality({i \in DOMAIN position_list : position_list[i].token_address = t})

\* C29: per token address the lifecycle is Absent -> Open -> Closed. A close
\* takes a position that is open and takes it out of the open ones, so none is
\* closed twice and the closes of a token never outnumber what execute_buy
\* opened for it; a close by update_positions leaves the address absent from
\* the store, where a later execute_buy passes the already-held check again.
C29_PositionLifecycle ==
    /\ [](\A t \in DOMAIN opened \cup DOMAIN closed \cup DOMAIN positions :
              Count(closed, t) + Held(t) <= Count(opened, t))
    /\ [][\A t \in DOMAIN closed' :
              Count(closed', t) # Count(closed, t) =>
                  /\ Count(closed', t) = Count(closed, t) + 1
                  /\ Held(t) >= 1
                  /\ Held(t)' = Held(t) - 1
                  /\ ppc' = "credited" /\ ppc = "run" => t \notin DOMAIN positions']_vars

\* C29 witness: a position of 0xa1 was opened and closed, and a later
\* execute_buy has opened a new position for the same address
C29_Witness ==
    /\ Count(opened, "0xa1") = 2
    /\ Count(closed, "0xa1") = 1
    /\ "0xa1" \in DOMAIN positions
    /\ position_list = <<>>

\* C30: every position a pass of update_positions removes from the store is
\* closed: the step that removes it credits capital with an exit value and
\* counts the close, the metrics update follows before the pass goes on, and
\* the pass returns only when no marked position is left to close.
C30_RemovedMeansCredited ==
    [][InPass =>
          /\ \A t \in DOMAIN positions \ DOMAIN positions' :
                /\ Count(closed', t) = Count(closed, t) + 1
                /\ \E p \in ExitQuotes : capital' = capital + ExitValue(positions[t], p)
                /\ ppc' = "credited"
          /\ ppc' = "sleep" => positions_to_close = <<>>]_vars

\* C31: capital is never negative, whatever the interleaving of concurrent
\* execute_buy calls with update_positions and emergency_close_all.
C31_CapitalNeverNegative == capital >= 0

\* over the token addresses ks: the positions open plus the positions closed
RECURSIVE OpenOrClosed(_)
OpenOrClosed(ks) ==
    IF ks = <<>> THEN 0
    ELSE Held(Head(ks)) + Count(closed, Head(ks)) + OpenOrClosed(Tail(ks))

\* C32: every buy execute_buy counted and debited has its own Position:
\* total_trades equals the number of positions open (in the store, or drained
\* by emergency_close_all and waiting to be closed) plus the number closed so far.
C32_EveryBuyHasItsPosition ==
    metrics.total_trades = OpenOrClosed(TokenOrder)

\* C33: every Position execute_buy stores has entry_price > 0, hence
\* stop_loss < entry_price < take_profit, for every successful response of the
\* gateway, whatever the toTokenAmount of the swap response.
C33_EntryPricePositive ==
    \A t \in DOMAIN positions :
        /\ positions[t].entry_price > 0
        /\ positions[t].stop_loss < positions[t].entry_price
        /\ positions[t].entry_price < positions[t].take_profit

\* C34: the retry budget of start_websocket_scanner counts failures in a row.
\* When a connection that was established and has delivered hashes fails, the
\* failure is the first of a new run: it is retried after the base delay of
\* 2 s with retry_count 1, and it never is the fatal one.
C34_BudgetCountsConsecutiveFailures ==
    [][(scanner = "part_000" /\ spc = "stream" /\ batch_hashes > 0
        /\ spc' \in {"sleep", "fatal"})
          => (spc' = "sleep" /\ retry_count' = 1 /\ delay' = 2)]_vars

\* C35: every hash received from the subscription ends up in one flushed
\* batch and is resolved: the pending batch is emptied only by a flush whose
\* results cover every hash of it, never by a close, the end of the stream or
\* a read error.
C35_NoHashDiscarded ==
    [][batch_hashes' < batch_hashes => (spc = "flush" /\ results = 0)]_vars

\* C36: an address given to add_to_blacklist in any letter case is blacklisted
\* for every later validate_token call on that address in any letter case: a
\* call whose address equals an entry of the blacklist, letter case ignored,
\* never passes the blacklist lookup and goes on to the external checks.
C36_BlacklistIgnoresCase ==
    [][\A w \in Workers :
          (wpc[w] = "lookup_missed" /\ wpc'[w] = "checks") =>
              \A i \in 1..Len(blacklist) : ~SameAddress(blacklist[i], wtok[w])]_vars

\* C37: the portfolio value the coordinator reads for the target check and
\* the final report equals the capital of the ExecutionEngine, after any
\* sequence of buys and closes.
C37_PortfolioValueIsCapital == get_portfolio_value = capital

\* C38: winning_trades never exceeds total_trades, and total_trades is positive
\* once a position has been closed, so the win_rate close_position computes is
\* a defined value between 0 and 1 (0 and 100 in percent).
C38_WinRateDefined ==
    /\ metrics.winning_trades <= metrics.total_trades
    /\ metrics.win_rate \in 0..100
    /\ (closed # EmptyMap \/ closing # [c \in DOMAIN closing |-> NoClose])
          => metrics.total_trades > 0

\* C38 witness: two positions were bought and closed, one of them with a
\* profit: win_rate is one half
C38_Witness ==
    /\ metrics.total_trades = 2
    /\ metrics.winning_trades = 1
    /\ metrics.win_rate = 50
    /\ Count(closed, "0xa1") = 2
    /\ positions = EmptyMap

C40_GuardsNeverDeadlock ==
    /\ \A w \in Workers : (wpc[w] # "idle") ~> (wpc[w] = "idle" \/ Exited)
    /\ (ppc # "sleep") ~> (ppc = "sleep" \/ Exited)
    /\ (mpc = "emergency") ~> Exited

\* C40 witness: while a pass holds the write guard in its scan, a buy waits
\* for the read guard of its checks and emergency_close_all, called by main,
\* waits for the write guard
C40_Witness ==
    /\ ppc = "run" /\ scan # <<>> /\ writer = "update_positions"
    /\ \E w \in Workers : wpc[w] = "sized" /\ wamt[w] >= DustThreshold
    /\ mpc = "emergency"

\* C6: at process exit the position store holds no open Position.
C6_NoPositionAtExit == Exited => positions = EmptyMap

\* C7: emergency_close_all closes every position it drained: it returns only
\* when none of them is left uncredited, and the store is then empty.
C7_EmergencyClosesAll ==
    [][(mpc = "closing" /\ mpc' # "closing" /\ mpc' # "credited") =>
          (position_list = <<>> /\ positions = EmptyMap)]_vars

\* C8: a call of execute_buy that declines returns "not executed" as a value
\* and leaves capital, the position store and the metrics unchanged.
C8_DeclineChangesNothing ==
    [][\A w \in Workers :
          Returns(w) =>
              /\ wret'[w] \in Declined \cup {Executed}
              /\ wret'[w] \in Declined =>
                    (positions' = positions /\ capital' = capital /\ metrics' = metrics)]_vars

\* C8 witness: a call has declined at the ceiling, with the book still full
C8_Witness ==
    \E w \in Workers :
        /\ wret[w] = TooMany
        /\ Cardinality(DOMAIN positions) >= max_positions
        /\ capital < InitialCapital

\* C9: capital plus the entry amounts of the open positions never exceeds the
\* initial capital plus the realized P&L.
C9_AccountingIdentity ==
    capital + SumAmounts(positions, Keys(positions)) <= InitialCapital + metrics.total_pnl

\* C10: the amount execute_buy sizes is min(requested, 30% of capital), with
\* capital 1000 and a request of 500 on an empty book it is 300, and the
\* Position it stores has that amount, stop_loss = 0.8 * entry_price and
\* take_profit = 5 * entry_price.
C10_SizingAndPosition ==
    [][\A w \in Workers :
          /\ (wpc[w] # "sized" /\ wpc'[w] = "sized") =>
                /\ wamt'[w] <= wreq'[w]
                /\ wamt'[w] * 10 <= capital * 3
                /\ wamt'[w] = wreq'[w] \/ (wamt'[w] + 1) * 10 > capital * 3
                /\ (capital = 100000 /\ positions = EmptyMap /\ wreq'[w] = 50000)
                      => wamt'[w] = 30000
          /\ (Returns(w) /\ wret'[w] = Executed) =>
                /\ wtok[w] \in DOMAIN positions'
                /\ positions'[wtok[w]].amount = wamt[w]
                /\ positions'[wtok[w]].entry_price = wentry[w]
                /\ positions'[wtok[w]].stop_loss * 10 = wentry[w] * 8
                /\ positions'[wtok[w]].take_profit = wentry[w] * 5
                /\ capital' = capital - wamt[w]]_vars

\* C10 witness: a clamped and an unclamped buy are both in the store
C10_Witness ==
    /\ "0xa1" \in DOMAIN positions /\ "0xb2" \in DOMAIN positions
    /\ positions["0xa1"].amount = 30000 /\ positions["0xa1"].entry_price = 10
    /\ positions["0xb2"].amount = 20000 /\ positions["0xb2"].entry_price = 20

====
